---- MODULE Spec2Model ----
(***************************************************************************)
(* A model of the OTP authenticator: the otpauth:// parser                 *)
(* (lib/otp-parser.js), the code generator (services/otp-generator.js),    *)
(* the image pipeline (services/qr-service-optimized.js and the legacy     *)
(* qr-processor) and the generate route over the OTPEntry store            *)
(* (routes, models/OTPEntry.js).                                           *)
(*                                                                         *)
(* Representation.  A JavaScript string is a sequence of one-character     *)
(* strings, so that split/substr/regex tests are computed and not assumed. *)
(* A 64-bit counter is a tuple of four 16-bit limbs <<w3, w2, w1, w0>>     *)
(* (most significant first), so that the 32-bit and 64-bit widths of the   *)
(* code are kept exactly.  A 32-bit word is a pair <<hi16, lo16>>.         *)
(***************************************************************************)
EXTENDS Integers, Sequences, FiniteSets, TLC

VARIABLES
    arg,        \* the input of the pure call under examination
    res,        \* its result ([kind |-> "pending"] before the call)
    store,      \* the OTPEntry document as stored in the database
    reqs,       \* per request: position in the handler and its local document
    responses,  \* the HTTP responses sent so far, in order
    scan,       \* the image pipeline: decoder answers, position, outcome
    now         \* the clock, Math.floor(Date.now() / 1000)

callVars == <<arg, res>>
routeVars == <<store, reqs, responses, now>>
scanVars == <<scan>>
vars == <<arg, res, store, reqs, responses, scan, now>>

----------------------------------------------------------------------------
(* Characters and strings *)

DIGITS == <<"0", "1", "2", "3", "4", "5", "6", "7", "8", "9">>
UPPER == <<"A", "B", "C", "D", "E", "F", "G", "H", "I", "J", "K", "L", "M",
           "N", "O", "P", "Q", "R", "S", "T", "U", "V", "W", "X", "Y", "Z">>
LOWER == <<"a", "b", "c", "d", "e", "f", "g", "h", "i", "j", "k", "l", "m",
           "n", "o", "p", "q", "r", "s", "t", "u", "v", "w", "x", "y", "z">>

Range(s) == {s[i] : i \in 1..Len(s)}

\* String.prototype.indexOf for one character: 0-based index, -1 when absent.
IndexOf(s, c) ==
    IF \E i \in 1..Len(s) : s[i] = c
    THEN (CHOOSE i \in 1..Len(s) : s[i] = c /\ \A j \in 1..(i - 1) : s[j] # c) - 1
    ELSE -1

\* The one-character string U+017F (LATIN SMALL LETTER LONG S), which
\* String.prototype.toUpperCase maps to 'S'.
LongS == "U+017F"

ToUpperChar(c) ==
    IF IndexOf(LOWER, c) >= 0 THEN UPPER[IndexOf(LOWER, c) + 1]
    ELSE IF c = LongS THEN "S"
    ELSE c
ToLowerChar(c) == IF IndexOf(UPPER, c) >= 0 THEN LOWER[IndexOf(UPPER, c) + 1] ELSE c
ToUpperCase(s) == [i \in 1..Len(s) |-> ToUpperChar(s[i])]
ToLowerCase(s) == [i \in 1..Len(s) |-> ToLowerChar(s[i])]

\* s.replace(/c/g, ''): every occurrence of the character removed.
RemoveChar(s, c) == SelectSeq(s, LAMBDA x : x # c)

\* String.prototype.startsWith
StartsWith(s, p) == Len(s) >= Len(p) /\ SubSeq(s, 1, Len(p)) = p

\* String.prototype.padStart(n, '0')
RECURSIVE PadStart(_, _)
PadStart(s, n) == IF Len(s) >= n THEN s ELSE PadStart(<<"0">> \o s, n)

\* Number.prototype.toString() of a non-negative integer.
RECURSIVE NumToString(_)
NumToString(n) ==
    IF n < 10 THEN <<DIGITS[n + 1]>>
    ELSE NumToString(n \div 10) \o <<DIGITS[(n % 10) + 1]>>

----------------------------------------------------------------------------
(* Secret decoding: OTPGenerator.base32ToBuffer, OTPGenerator.hexToBuffer *)

base32Chars == UPPER \o <<"2", "3", "4", "5", "6", "7">>
HEXCHARS == DIGITS \o <<"a", "b", "c", "d", "e", "f">>

\* val.toString(2).padStart(5, '0'): the five bits of val, most significant first.
Bits5(v) == <<(v \div 16) % 2, (v \div 8) % 2, (v \div 4) % 2, (v \div 2) % 2, v % 2>>

RECURSIVE Base32Bits(_)
Base32Bits(s) ==
    IF s = <<>> THEN <<>>
    ELSE Bits5(IndexOf(base32Chars, Head(s))) \o Base32Bits(Tail(s))

\* parseInt(bits.substr(i, 8), 2)
ByteOfBits(b, i) ==
    b[i] * 128 + b[i + 1] * 64 + b[i + 2] * 32 + b[i + 3] * 16
      + b[i + 4] * 8 + b[i + 5] * 4 + b[i + 6] * 2 + b[i + 7]

\* Upper-cases, drops every '=', throws on a character outside the alphabet,
\* and keeps the whole bytes of the 5-bit groups (left-over bits are dropped).
base32ToBuffer(base32) ==
    LET s == RemoveChar(ToUpperCase(base32), "=")
    IN  IF \E i \in 1..Len(s) : IndexOf(base32Chars, s[i]) = -1
        THEN [threw |-> TRUE, error |-> "Invalid Base32 character", bytes |-> <<>>]
        ELSE LET bits == Base32Bits(s)
             IN  [threw |-> FALSE, error |-> "",
                  bytes |-> [k \in 1..(Len(bits) \div 8) |-> ByteOfBits(bits, 8 * (k - 1) + 1)]]

HexVal(c) == IndexOf(HEXCHARS, ToLowerChar(c))

\* Buffer.from(hex, 'hex') decodes pairs of hex digits and stops, without an
\* error, at the first pair that is not two hex digits.
RECURSIVE HexPairs(_)
HexPairs(s) ==
    IF Len(s) < 2 \/ HexVal(s[1]) = -1 \/ HexVal(s[2]) = -1 THEN <<>>
    ELSE <<HexVal(s[1]) * 16 + HexVal(s[2])>> \o HexPairs(SubSeq(s, 3, Len(s)))

hexToBuffer(hex) ==
    LET h == IF Len(hex) % 2 # 0 THEN <<"0">> \o hex ELSE hex
    IN  [threw |-> FALSE, error |-> "", bytes |-> HexPairs(h)]

----------------------------------------------------------------------------
(* The HMAC core: OTPGenerator.generateOTPCode, generateSteamOTP *)

\* 64-bit values as four 16-bit limbs, most significant first.
U64FromNat(n) == <<0, 0, n \div 65536, n % 65536>>
U64Inc(c) ==
    IF c[4] < 65535 THEN <<c[1], c[2], c[3], c[4] + 1>>
    ELSE IF c[3] < 65535 THEN <<c[1], c[2], c[3] + 1, 0>>
    ELSE IF c[2] < 65535 THEN <<c[1], c[2] + 1, 0, 0>>
    ELSE <<(c[1] + 1) % 65536, 0, 0, 0>>
RECURSIVE U64Add(_, _)
U64Add(c, n) == IF n = 0 THEN c ELSE U64Add(U64Inc(c), n - 1)

\* The 8-byte big-endian encoding of a 64-bit value (RFC 4226, section 5.1).
BigEndian8(c) ==
    <<c[1] \div 256, c[1] % 256, c[2] \div 256, c[2] % 256,
      c[3] \div 256, c[3] % 256, c[4] \div 256, c[4] % 256>>

\* Buffer.alloc(8); writeUInt32BE(0, 0); writeUInt32BE(counter, 4).
\* writeUInt32BE throws ERR_OUT_OF_RANGE for a value above 2^32 - 1.
CounterBuffer(counter) ==
    IF counter[1] # 0 \/ counter[2] # 0
    THEN [threw |-> TRUE, error |-> "ERR_OUT_OF_RANGE", bytes |-> <<>>]
    ELSE [threw |-> FALSE, error |-> "",
          bytes |-> <<0, 0, 0, 0,
                      counter[3] \div 256, counter[3] % 256,
                      counter[4] \div 256, counter[4] % 256>>]

SHA1 == <<"S", "H", "A", "1">>
SHA256 == <<"S", "H", "A", "2", "5", "6">>
SHA512 == <<"S", "H", "A", "5", "1", "2">>
\* A digest of the crypto library that the parser's OTPAlgorithm does not list.
SHA384 == <<"S", "H", "A", "3", "8", "4">>
\* Names of OTPAlgorithm for which crypto has no digest.
GOST3411_2012_256 == <<"G", "O", "S", "T", "3", "4", "1", "1", "_", "2", "0", "1", "2", "_", "2", "5", "6">>
GOST3411_2012_512 == <<"G", "O", "S", "T", "3", "4", "1", "1", "_", "2", "0", "1", "2", "_", "5", "1", "2">>

\* The digest length of the hash a name selects; 0 when crypto knows no such
\* digest (createHmac then throws).
DigestLength(name) ==
    IF name = ToLowerCase(SHA1) THEN 20
    ELSE IF name = ToLowerCase(SHA256) THEN 32
    ELSE IF name = ToLowerCase(SHA512) THEN 64
    ELSE IF name = ToLowerCase(SHA384) THEN 48
    ELSE 0

RECURSIVE Mix(_, _)
Mix(s, i) == IF i > Len(s) THEN 0 ELSE (s[i] * (i + 1) + Mix(s, i + 1)) % 65521

\* crypto.createHmac(name, key).update(msg).digest(): the library's HMAC,
\* abstracted as a fixed deterministic function of (name, key, message) with
\* the digest length of the hash.
createHmac(name, key, msg) ==
    LET n == DigestLength(name)
        seed == (Mix(key, 1) * 31 + Mix(msg, 1) * 17 + n) % 65521
    IN  IF n = 0
        THEN [threw |-> TRUE, error |-> "Invalid digest", bytes |-> <<>>]
        ELSE [threw |-> FALSE, error |-> "",
              bytes |-> [i \in 1..n |-> ((seed + 1) * (i + 2) * 7 + i * i) % 256]]

\* hash.readUInt32BE(offset) as <<high 16 bits, low 16 bits>> (offset 0-based).
readUInt32BE(hash, offset) ==
    <<hash[offset + 1] * 256 + hash[offset + 2],
      hash[offset + 3] * 256 + hash[offset + 4]>>

\* w & 0x7fffffff
And7fffffff(w) == (w[1] % 32768) * 65536 + w[2]

\* Dynamic truncation: offset = hash[hash.length - 1] & 0x0f, then the 31-bit value.
TruncateOffsetFirstByte(hash) == And7fffffff(readUInt32BE(hash, hash[1] % 16))
truncatedHash(hash) == And7fffffff(readUInt32BE(hash, hash[Len(hash)] % 16))

RECURSIVE Pow10(_)
Pow10(d) == IF d = 0 THEN 1 ELSE 10 * Pow10(d - 1)

\* truncatedHash % Math.pow(10, digits); 10^digits exceeds every 31-bit value
\* from digits = 10 on, where the remainder is the value itself.
ModPow10(v, digits) == IF digits >= 10 THEN v ELSE v % Pow10(digits)

\* code.toString().padStart(digits, '0')
CodeStringNoPad(hash, digits) == NumToString(ModPow10(truncatedHash(hash), digits))
CodeString(hash, digits) == PadStart(NumToString(ModPow10(truncatedHash(hash), digits)), digits)

generateOTPCode(secret, counter, digits, algorithm, isHex) ==
    LET key == IF isHex THEN hexToBuffer(secret) ELSE base32ToBuffer(secret)
        counterBuffer == CounterBuffer(counter)
        hmac == createHmac(ToLowerCase(algorithm), key.bytes, counterBuffer.bytes)
    IN  IF key.threw
        THEN [threw |-> TRUE, error |-> key.error, code |-> <<>>, counterBuffer |-> <<>>]
        ELSE IF counterBuffer.threw
        THEN [threw |-> TRUE, error |-> counterBuffer.error, code |-> <<>>,
              counterBuffer |-> <<>>]
        ELSE IF hmac.threw
        THEN [threw |-> TRUE, error |-> hmac.error, code |-> <<>>,
              counterBuffer |-> counterBuffer.bytes]
        ELSE [threw |-> FALSE, error |-> "", code |-> CodeString(hmac.bytes, digits),
              counterBuffer |-> counterBuffer.bytes]

steamChars == <<"2", "3", "4", "5", "6", "7", "8", "9", "B", "C", "D", "F", "G",
                "H", "J", "K", "M", "N", "P", "Q", "R", "T", "V", "W", "X", "Y">>

RECURSIVE SteamLoopMostSignificantFirst(_, _)
RECURSIVE SteamLoop(_, _)
SteamLoopMostSignificantFirst(num, i) ==
    IF i = 0 THEN <<>>
    ELSE SteamLoopMostSignificantFirst(num \div Len(steamChars), i - 1)
           \o <<steamChars[(num % Len(steamChars)) + 1]>>

SteamLoop(num, i) ==
    IF i = 0 THEN <<>>
    ELSE <<steamChars[(num % Len(steamChars)) + 1]>>
           \o SteamLoop(num \div Len(steamChars), i - 1)

generateSteamOTP(secret, counter) ==
    LET key == base32ToBuffer(secret)
        counterBuffer == CounterBuffer(counter)
        hmac == createHmac(ToLowerCase(SHA1), key.bytes, counterBuffer.bytes)
    IN  IF key.threw
        THEN [threw |-> TRUE, error |-> key.error, code |-> <<>>, counterBuffer |-> <<>>]
        ELSE IF counterBuffer.threw
        THEN [threw |-> TRUE, error |-> counterBuffer.error, code |-> <<>>,
              counterBuffer |-> <<>>]
        ELSE [threw |-> FALSE, error |-> "",
              code |-> SteamLoop(truncatedHash(hmac.bytes), 5),
              counterBuffer |-> counterBuffer.bytes]

----------------------------------------------------------------------------
(* The states of the parts of the model a specification does not exercise. *)

Pending == [kind |-> "pending"]
NoArg == [kind |-> "none"]
IdleStore == [kind |-> "none"]
IdleReqs == <<>>
IdleScan == [kind |-> "none"]

----------------------------------------------------------------------------
(* SpecCode: the code generator's primitives applied to bounded inputs. *)

MaxDigitsInput == 11
MinDigits == 4
MaxDigits == 10

HashLengths == {20, 32, 64}
Windows == {<<0, 0, 0, 0>>, <<255, 255, 255, 255>>, <<128, 0, 0, 1>>,
            <<80, 239, 127, 25>>, <<0, 0, 0, 99>>, <<127, 255, 255, 255>>}
HighNibbles == {0, 9}

\* A digest of length n whose last byte has low nibble o and whose four bytes
\* at offset o are w.
MakeHash(n, o, hn, w) ==
    [i \in 1..n |-> IF i = n THEN hn * 16 + o
                    ELSE IF i \in (o + 1)..(o + 4) THEN w[i - o]
                    ELSE 170]

HashInputs == {MakeHash(n, o, hn, w) : n \in HashLengths, o \in 0..15,
               hn \in HighNibbles, w \in Windows}

LimbValues == {0, 1, 65535}
CounterInputs == {<<a, b, c, d>> : a \in LimbValues, b \in LimbValues,
                  c \in LimbValues, d \in LimbValues}

SecretInputs == {<<"J", "B", "S", "W", "Y", "3", "D", "P">>,
                 <<"m", "z", "x", "w", "=", "=">>,
                 <<"3", "1", "3", "2", "3", "3">>,
                 <<"s", "t", "m", "-", "A", "B">>}
AlgorithmInputs == {SHA1, SHA256, SHA512, <<"M", "D", "9">>}

TruncateInputs == [kind : {"truncate"}, hash : HashInputs, digits : 1..MaxDigitsInput]
OTPCodeInputs == [kind : {"otpcode"}, secret : SecretInputs, counter : CounterInputs,
                  digits : {6, 8}, algorithm : AlgorithmInputs, isHex : BOOLEAN]
SteamInputs == [kind : {"steamotp"}, secret : SecretInputs, counter : CounterInputs]

InitCode ==
    /\ arg \in TruncateInputs \cup OTPCodeInputs \cup SteamInputs
    /\ res = Pending
    /\ store = IdleStore
    /\ reqs = IdleReqs
    /\ responses = <<>>
    /\ scan = IdleScan
    /\ now = 0

\* Lines 170-176 of generateOTPCode applied to a digest.
DoTruncate ==
    /\ arg.kind = "truncate"
    /\ res = Pending
    /\ res' = [kind |-> "truncated", code |-> CodeString(arg.hash, arg.digits)]
    /\ UNCHANGED <<arg, routeVars, scanVars>>

DoGenerateOTPCode ==
    /\ arg.kind = "otpcode"
    /\ res = Pending
    /\ res' = [kind |-> "otpcode",
               out |-> generateOTPCode(arg.secret, arg.counter, arg.digits,
                                       arg.algorithm, arg.isHex)]
    /\ UNCHANGED <<arg, routeVars, scanVars>>

DoGenerateSteamOTP ==
    /\ arg.kind = "steamotp"
    /\ res = Pending
    /\ res' = [kind |-> "steamotp", out |-> generateSteamOTP(arg.secret, arg.counter)]
    /\ UNCHANGED <<arg, routeVars, scanVars>>

NextCode == DoTruncate \/ DoGenerateOTPCode \/ DoGenerateSteamOTP

SpecCode == InitCode /\ [][NextCode]_vars

\* The decimal value of a string of digits.
RECURSIVE DecValue(_)
DecValue(s) ==
    IF s = <<>> THEN 0
    ELSE DecValue(SubSeq(s, 1, Len(s) - 1)) * 10 + IndexOf(DIGITS, s[Len(s)])

\* RFC 4226 section 5.3 on a digest: the 31-bit value at the offset given by
\* the low nibble of the last byte.
Rfc4226Value(h) ==
    LET o == h[Len(h)] % 16
    IN  (h[o + 1] % 128) * 16777216 + h[o + 2] * 65536 + h[o + 3] * 256 + h[o + 4]

\* C1: for every digest h and digits d in 4..10 the code is the decimal string
\* of (31-bit dynamic truncation of h) mod 10^d, left-padded with '0' to exactly
\* d characters: it has length d, holds only decimal digits and has that value.
C1_TruncationCode ==
    (res.kind = "truncated" /\ arg.digits \in MinDigits..MaxDigits) =>
        /\ Len(res.code) = arg.digits
        /\ Range(res.code) \subseteq Range(DIGITS)
        /\ DecValue(res.code) =
             IF arg.digits = 10 THEN Rfc4226Value(arg.hash)
             ELSE Rfc4226Value(arg.hash) % Pow10(arg.digits)

\* The RFC 4226 example digest window 50ef7f19 at offset 10 gives 872921.
C1_Witness ==
    /\ res.kind = "truncated"
    /\ arg.digits = 6
    /\ res.code = <<"8", "7", "2", "9", "2", "1">>

\* C2: for every counter below 2^64 (with a decodable secret and a known
\* hash) generateOTPCode and generateSteamOTP return a code and the HMAC
\* message is the 8-byte big-endian encoding of the counter.
C2_CounterEncoding ==
    (res.kind \in {"otpcode", "steamotp"}
       /\ res.out.error \notin {"Invalid Base32 character", "Invalid digest"}) =>
        /\ ~res.out.threw
        /\ res.out.counterBuffer = BigEndian8(arg.counter)

----------------------------------------------------------------------------
(* lib/otp-parser.js.                                                      *)
(* An optional value (a JavaScript value that may be undefined, or a       *)
(* number that may be NaN) is a sequence of length 0 or 1.  A JavaScript   *)
(* number n is held as the integer 10 * n, so that the one-digit fractions *)
(* Number() produces from the inputs (2.5, 6.5) are kept exactly.          *)

\* The first position from i on at which sep occurs in s, 0 when it does not.
RECURSIVE FindSub(_, _, _)
FindSub(s, sep, i) ==
    IF i + Len(sep) - 1 > Len(s) THEN 0
    ELSE IF SubSeq(s, i, i + Len(sep) - 1) = sep THEN i
    ELSE FindSub(s, sep, i + 1)

\* String.prototype.split(sep) for a non-empty separator.
RECURSIVE Split(_, _)
Split(s, sep) ==
    LET k == FindSub(s, sep, 1)
    IN  IF k = 0 THEN <<s>>
        ELSE <<SubSeq(s, 1, k - 1)>> \o Split(SubSeq(s, k + Len(sep), Len(s)), sep)

\* array[i] (0-based) as an optional value.
At(a, i) == IF i + 1 <= Len(a) THEN <<a[i + 1]>> ELSE <<>>

\* String.prototype.substr(start) and substr(start, length), start 0-based.
SubstrFrom(s, start) == SubSeq(s, start + 1, Len(s))
Substr(s, start, n) == SubSeq(s, start + 1, IF start + n < Len(s) THEN start + n ELSE Len(s))

\* The printable ASCII characters, 0x20 to 0x7e (the double quote, the
\* backslash and the grave accent are written by name).
ASCII == <<" ", "!", "dquote", "#", "$", "%", "&", "'", "(", ")", "*", "+", ",", "-",
           ".", "/">> \o DIGITS \o <<":", ";", "<", "=", ">", "?", "@">> \o UPPER
           \o <<"[", "bslash", "]", "^", "_", "grave">> \o LOWER \o <<"{", "|", "}", "~">>

\* decodeURIComponent on ASCII text: %XX with XX in 20..7e is the character,
\* a '%' not followed by two hex digits, or one escaped byte that is no
\* complete UTF-8 sequence (80..ff), throws URIError (the empty option).
RECURSIVE DecodeURIComponent(_)
DecodeURIComponent(s) ==
    IF s = <<>> THEN <<s>>
    ELSE IF s[1] # "%"
    THEN LET rest == DecodeURIComponent(Tail(s))
         IN  IF rest = <<>> THEN <<>> ELSE <<(<<s[1]>> \o rest[1])>>
    ELSE IF Len(s) < 3 \/ HexVal(s[2]) = -1 \/ HexVal(s[3]) = -1 THEN <<>>
    ELSE LET b == HexVal(s[2]) * 16 + HexVal(s[3])
             rest == DecodeURIComponent(SubSeq(s, 4, Len(s)))
         IN  IF b < 32 \/ b > 126 \/ rest = <<>> THEN <<>>
             ELSE <<(<<ASCII[b - 31]>> \o rest[1])>>

\* issuer.replace(/\+/g, ' ')
PlusToSpace(s) == [i \in 1..Len(s) |-> IF s[i] = "+" THEN " " ELSE s[i]]

IsDigits(s) == s # <<>> /\ \A i \in 1..Len(s) : IndexOf(DIGITS, s[i]) >= 0

\* Number(string) for decimal literals with an optional sign and at most one
\* fractional digit; the empty string is 0; anything else is NaN (the empty
\* option).  The value strings of the inputs hold no exponent, radix prefix,
\* white space, 'Infinity' or longer fraction.
StringToNumber(s) ==
    LET signed == s # <<>> /\ s[1] \in {"-", "+"}
        body == IF signed THEN Tail(s) ELSE s
        sign == IF signed /\ s[1] = "-" THEN -1 ELSE 1
        parts == Split(body, <<".">>)
    IN  IF s = <<>> THEN <<0>>
        ELSE IF Len(parts) = 1 /\ IsDigits(body) THEN <<sign * DecValue(body) * 10>>
        ELSE IF Len(parts) = 2 /\ (parts[1] # <<>> \/ parts[2] # <<>>)
                /\ (parts[1] = <<>> \/ IsDigits(parts[1]))
                /\ (parts[2] = <<>> \/ (IsDigits(parts[2]) /\ Len(parts[2]) = 1))
        THEN <<sign * (DecValue(parts[1]) * 10 + DecValue(parts[2]))>>
        ELSE <<>>

\* Number(value): Number(undefined) is NaN.
Number(value) == IF value = <<>> THEN <<>> ELSE StringToNumber(value[1])

\* 60 % period !== 0 for a period in 0..60 (in tenths, 0..600).  60 % 0 is
\* NaN.  The remainder is exact for the integers and the halves; a tenth that
\* is no half is not a binary fraction, and its nearest double divides 60
\* with a non-zero remainder.
Rem60NotZero(period) ==
    IF period = 0 THEN TRUE
    ELSE IF period % 5 = 0 THEN 600 % period # 0
    ELSE TRUE

\* case 'counter'
NormalizeCounter(value) ==
    LET counter == Number(value)
    IN  IF counter = <<>> \/ counter[1] < 0 THEN <<0>> ELSE counter

\* case 'period': undefined (the empty option) when rejected
NormalizePeriod(value) ==
    LET period == Number(value)
    IN  IF period = <<>> THEN <<>>
        ELSE IF period[1] < 0 \/ period[1] > 600 \/ Rem60NotZero(period[1]) THEN <<>>
        ELSE period

\* case 'digits'
NormalizeDigits(value) ==
    LET digits == Number(value)
    IN  IF digits = <<>> \/ digits[1] = 0 THEN <<60>> ELSE digits

\* /^[0-9a-f]+$/i
IsHexSecret(secret) == secret # <<>> /\ \A i \in 1..Len(secret) : HexVal(secret[i]) >= 0

\* /^[2-7a-z]+=*$/i: without the u flag the case folding of a regular
\* expression maps no character outside ASCII to one inside, so U+017F does
\* not match.
IsBase32Secret(secret) ==
    \E k \in 1..Len(secret) :
        /\ \A i \in 1..k : /\ secret[i] # LongS
                             /\ IndexOf(base32Chars, ToUpperChar(secret[i])) >= 0
        /\ \A i \in (k + 1)..Len(secret) : secret[i] = "="

\* The test of line 147: the secret is rejected when it is neither.
SecretFormatAlwaysOk(secret) == TRUE
SecretFormatOk(secret) == IsHexSecret(secret) \/ IsBase32Secret(secret)

TOTP == <<"t", "o", "t", "p">>
HOTP == <<"h", "o", "t", "p">>
HEX == <<"h", "e", "x">>
HHEX == <<"h", "h", "e", "x">>
STEAM == <<"s", "t", "e", "a", "m">>
BATTLE == <<"b", "a", "t", "t", "l", "e">>
OTPType == {TOTP, HOTP, BATTLE, STEAM, HEX, HHEX}

Null == [t |-> "null"]

\* One pass of parameters.forEach: the switch on the lower-cased key.
\* value.toUpperCase() on a parameter without '=' throws a TypeError, which
\* ends the loop and is caught by the function's try/catch.
ParameterStep(acc, item) ==
    LET parameter == Split(item, <<"=">>)
        key == ToLowerCase(parameter[1])
        value == At(parameter, 1)
    IN  IF key = <<"s", "e", "c", "r", "e", "t">> THEN [acc EXCEPT !.secret = value]
        ELSE IF key = <<"i", "s", "s", "u", "e", "r">>
        THEN LET decoded == IF value = <<>> THEN <<<<"u", "n", "d", "e", "f", "i", "n", "e", "d">>>>
                            ELSE DecodeURIComponent(value[1])
                 issuer == IF decoded = <<>> THEN value[1] ELSE decoded[1]
             IN  [acc EXCEPT !.issuer = <<PlusToSpace(issuer)>>]
        ELSE IF key = <<"c", "o", "u", "n", "t", "e", "r">> THEN [acc EXCEPT !.counter = NormalizeCounter(value)]
        ELSE IF key = <<"p", "e", "r", "i", "o", "d">> THEN [acc EXCEPT !.period = NormalizePeriod(value)]
        ELSE IF key = <<"d", "i", "g", "i", "t", "s">> THEN [acc EXCEPT !.digits = NormalizeDigits(value)]
        ELSE IF key = <<"a", "l", "g", "o", "r", "i", "t", "h", "m">>
        THEN IF value = <<>> THEN [acc EXCEPT !.threw = TRUE]
             ELSE [acc EXCEPT !.algorithm = <<ToUpperCase(value[1])>>]
        ELSE acc

RECURSIVE ParameterLoop(_, _, _)
ParameterLoop(acc, parameters, i) ==
    IF i > Len(parameters) \/ acc.threw THEN acc
    ELSE ParameterLoop(ParameterStep(acc, parameters[i]), parameters, i + 1)

\* x || d for an optional value whose falsy content is given.
OrElse(x, falsy, d) == IF x = <<>> \/ x[1] = falsy THEN d ELSE x[1]

\* Lines 155-179: the type from the secret's shape, then the vendor prefixes.
RefineTypeAnyHex(type, secret) ==
    IF IsHexSecret(secret)
    THEN IF type = TOTP THEN HEX ELSE IF type = HOTP THEN HHEX ELSE type
    ELSE type

RefineType(type, secret) ==
    IF ~IsBase32Secret(secret) /\ IsHexSecret(secret)
    THEN IF type = TOTP THEN HEX ELSE IF type = HOTP THEN HHEX ELSE type
    ELSE type

VendorOverride(r) ==
    LET battle == IF StartsWith(r.secret, <<"b", "l", "z", "-">>)
                  THEN [type |-> BATTLE, secret |-> SubstrFrom(r.secret, 4)]
                  ELSE IF StartsWith(r.secret, <<"b", "l", "i", "z", "-">>)
                  THEN [type |-> BATTLE, secret |-> SubstrFrom(r.secret, 5)]
                  ELSE r
    IN  IF StartsWith(battle.secret, <<"s", "t", "m", "-">>)
        THEN [type |-> STEAM, secret |-> SubstrFrom(battle.secret, 4)]
        ELSE battle

\* if (!secret): undefined (a secret key without a value) and '' are falsy.
SecretMissingOnlyUndefined(secret) == secret = <<>>
SecretMissing(secret) == secret = <<>> \/ secret[1] = <<>>

parseStandardOTPUrl(otpUrl) ==
    LET uri0 == At(Split(otpUrl, <<"o", "t", "p", "a", "u", "t", "h", ":", "/", "/">>), 1)
        type0 == ToLowerCase(Substr(uri0[1], 0, 4))
        uri == SubstrFrom(uri0[1], 5)
        rawLabel == Split(uri, <<"?">>)[1]
        parameterPart == At(Split(uri, <<"?">>), 1)
        decodedLabel == DecodeURIComponent(rawLabel)
        label == IF decodedLabel = <<>> THEN rawLabel ELSE decodedLabel[1]
        hasColon == IndexOf(label, ":") # -1
        acc0 == [secret |-> <<(<<>>)>>,
                 issuer |-> IF hasColon THEN <<Split(label, <<":">>)[1]>> ELSE <<>>,
                 algorithm |-> <<>>, period |-> <<>>, digits |-> <<>>,
                 counter |-> <<>>, threw |-> FALSE]
        account == IF hasColon THEN Split(label, <<":">>)[2] ELSE label
        acc == ParameterLoop(acc0, Split(parameterPart[1], <<"&">>), 1)
        secret == acc.secret[1]
        vendor == VendorOverride([type |-> RefineType(type0, secret), secret |-> secret])
    IN  IF uri0 = <<>> \/ uri0[1] = <<>> THEN Null
        ELSE IF rawLabel = <<>> \/ parameterPart = <<>> \/ parameterPart[1] = <<>> THEN Null
        ELSE IF acc.threw THEN Null
        ELSE IF SecretMissing(acc.secret) THEN Null
        ELSE IF ~SecretFormatOk(secret)
        THEN [t |-> "object", error |-> "Invalid secret format", secret |-> secret,
              originalUrl |-> otpUrl]
        ELSE [t |-> "object",
              type |-> vendor.type,
              label |-> label,
              issuer |-> OrElse(acc.issuer, <<>>, <<>>),
              account |-> account,
              secret |-> vendor.secret,
              algorithm |-> OrElse(acc.algorithm, <<>>, SHA1),
              digits |-> OrElse(acc.digits, 0, 60),
              period |-> OrElse(acc.period, 0, 300),
              counter |-> OrElse(acc.counter, 0, 0),
              originalUrl |-> otpUrl,
              valid |-> TRUE]

parseMigrationUrl(migrationUrl) ==
    [t |-> "object", type |-> <<"m", "i", "g", "r", "a", "t", "i", "o", "n">>, originalUrl |-> migrationUrl,
     message |-> "Migration URLs require specialized parsing", valid |-> FALSE]

parseOTPAuth(otpUrl) ==
    IF otpUrl = <<>> THEN Null
    ELSE IF StartsWith(otpUrl, <<"o", "t", "p", "a", "u", "t", "h", "-", "m", "i", "g", "r", "a", "t", "i", "o", "n", ":", "/", "/">>) THEN parseMigrationUrl(otpUrl)
    ELSE IF StartsWith(otpUrl, <<"o", "t", "p", "a", "u", "t", "h", ":", "/", "/">>) THEN parseStandardOTPUrl(otpUrl)
    ELSE Null

----------------------------------------------------------------------------
(* SpecParse: parseOTPAuth applied to bounded URIs.  A URI is built from a *)
(* scheme token, a label, an optional secret parameter and up to           *)
(* MaxExtraParams further parameters; the parser sees the text only.       *)

MaxExtraParams == 1

RECURSIVE Join(_, _)
Join(items, sep) ==
    IF items = <<>> THEN <<>>
    ELSE IF Len(items) = 1 THEN items[1]
    ELSE items[1] \o sep \o Join(Tail(items), sep)

RECURSIVE SeqsUpTo(_, _)
SeqsUpTo(S, n) ==
    IF n = 0 THEN {<<>>}
    ELSE LET shorter == SeqsUpTo(S, n - 1)
         IN  shorter \cup {Append(s, x) : s \in {q \in shorter : Len(q) = n - 1}, x \in S}

UriHeads == {[token |-> <<"t", "o", "t", "p">>, label |-> <<"E", "x", "a", "m", "p", "l", "e", ":", "u", "s", "e", "r">>],
             [token |-> <<"h", "o", "t", "p">>, label |-> <<"u", "s", "e", "r">>],
             [token |-> <<"T", "O", "T", "P">>, label |-> <<"u", "s", "e", "r">>],
             [token |-> <<"a", "b", "c", "d">>, label |-> <<"u", "s", "e", "r">>],
             [token |-> <<"s", "t", "e", "a", "m">>, label |-> <<"u", "s", "e", "r">>],
             [token |-> <<"t", "o", "t", "p">>, label |-> <<>>],
             [token |-> <<"h", "o", "t", "p">>, label |-> <<"M", "y", "%", "2", "0", "C", "o", "%", "3", "A", "b", "o", "b">>],
             [token |-> <<"t", "o", "t", "p">>, label |-> <<"A", "c", "m", "e", ":", "a", "d", "m", "i", "n", ":", "e", "u">>]}

SecretValues == {<<"J", "B", "S", "W", "Y", "3", "D", "P">>, <<"3", "1", "3", "2">>, <<"a", "b", "c", "d", "e", "f">>, <<"s", "t", "m", "-", "A", "B", "C", "D", "E", "F", "G", "H">>, <<"b", "l", "z", "-", "A", "B", "C", "D">>,
                 <<"b", "l", "i", "z", "-", "A", "B", "C", "D">>, <<"a", "!", "b">>, <<>>}

ExtraParams == {<<"d", "i", "g", "i", "t", "s", "=", "8">>, <<"d", "i", "g", "i", "t", "s", "=", "3">>, <<"d", "i", "g", "i", "t", "s", "=", "1", "1">>, <<"d", "i", "g", "i", "t", "s", "=", "0">>, <<"d", "i", "g", "i", "t", "s", "=", "a", "b", "c">>,
                <<"d", "i", "g", "i", "t", "s", "=">>, <<"d", "i", "g", "i", "t", "s", "=", "6", ".", "5">>, <<"d", "i", "g", "i", "t", "s", "=", "-", "1">>, <<"d", "i", "g", "i", "t", "s">>,
                <<"p", "e", "r", "i", "o", "d", "=", "1", "5">>, <<"p", "e", "r", "i", "o", "d", "=", "6", "0">>, <<"p", "e", "r", "i", "o", "d", "=", "1">>, <<"p", "e", "r", "i", "o", "d", "=", "4", "5">>, <<"p", "e", "r", "i", "o", "d", "=", "9", "0">>,
                <<"p", "e", "r", "i", "o", "d", "=", "0">>, <<"p", "e", "r", "i", "o", "d", "=", "-", "3", "0">>, <<"p", "e", "r", "i", "o", "d", "=", "2", ".", "5">>, <<"p", "e", "r", "i", "o", "d", "=", "1", ".", "2">>,
                <<"p", "e", "r", "i", "o", "d", "=", "a", "b", "c">>, <<"p", "e", "r", "i", "o", "d">>,
                <<"c", "o", "u", "n", "t", "e", "r", "=", "5">>, <<"c", "o", "u", "n", "t", "e", "r", "=", "-", "1">>,
                <<"a", "l", "g", "o", "r", "i", "t", "h", "m", "=", "s", "h", "a", "2", "5", "6">>, <<"a", "l", "g", "o", "r", "i", "t", "h", "m">>,
                <<"i", "s", "s", "u", "e", "r", "=", "M", "y", "+", "C", "o">>, <<"i", "s", "s", "u", "e", "r">>, <<"f", "o", "o", "=", "b", "a", "r">>}

BuildUrl(head, secret, extras) ==
    LET parameters == (IF secret = <<>> THEN <<>> ELSE <<<<"s", "e", "c", "r", "e", "t", "=">> \o secret[1]>>)
                        \o extras
    IN  <<"o", "t", "p", "a", "u", "t", "h", ":", "/", "/">> \o head.token \o <<"/">> \o head.label
          \o (IF parameters = <<>> THEN <<>> ELSE <<"?">> \o Join(parameters, <<"&">>))

OtpauthInputs ==
    {[kind |-> "uri", shape |-> "otpauth", token |-> h.token, label |-> h.label,
      secret |-> s, extras |-> e, url |-> BuildUrl(h, s, e)] :
        h \in UriHeads,
        s \in {<<>>} \cup {<<v>> : v \in SecretValues},
        e \in SeqsUpTo(ExtraParams, MaxExtraParams)}

OtherInputs ==
    {[kind |-> "uri", shape |-> "other", token |-> <<>>, label |-> <<>>,
      secret |-> <<>>, extras |-> <<>>, url |-> u] :
        u \in {<<>>, <<"h", "t", "t", "p", ":", "/", "/", "x">>, <<"o", "t", "p", "a", "u", "t", "h", "-", "m", "i", "g", "r", "a", "t", "i", "o", "n", ":", "/", "/", "o", "f", "f", "l", "i", "n", "e", "?", "d", "a", "t", "a", "=", "C", "g", "A">>,
               <<"o", "t", "p", "a", "u", "t", "h", ":", "/", "/">>}}

UriInputs == OtpauthInputs \cup OtherInputs

InitParse ==
    /\ arg \in UriInputs
    /\ res = Pending
    /\ store = IdleStore
    /\ reqs = IdleReqs
    /\ responses = <<>>
    /\ scan = IdleScan
    /\ now = 0

DoParseOTPAuth ==
    /\ arg.kind = "uri"
    /\ res = Pending
    /\ res' = [kind |-> "parsed", out |-> parseOTPAuth(arg.url)]
    /\ UNCHANGED <<arg, routeVars, scanVars>>

NextParse == DoParseOTPAuth

SpecParse == InitParse /\ [][NextParse]_vars

\* A result that is a descriptor: an object whose valid flag is true.
IsValid(r) == r.t = "object" /\ "valid" \in DOMAIN r /\ r.valid = TRUE

\* The URI has a label and a query, and no parameter makes the parser throw.
WellFormed(a) ==
    /\ a.shape = "otpauth"
    /\ a.label # <<>>
    /\ <<"a", "l", "g", "o", "r", "i", "t", "h", "m">> \notin Range(a.extras)

\* C3: a secret 'stm-'X gives a valid descriptor of type steam with secret X
\* under the scheme tokens totp and hotp; 'blz-'X and 'bliz-'X give type battle
\* with secret X.
C3_VendorPrefix ==
    (res.kind = "parsed" /\ WellFormed(arg) /\ arg.token \in {TOTP, HOTP}
       /\ arg.secret # <<>>) =>
        /\ StartsWith(arg.secret[1], <<"s", "t", "m", "-">>) =>
             /\ IsValid(res.out)
             /\ res.out.type = STEAM
             /\ res.out.secret = SubstrFrom(arg.secret[1], 4)
        /\ StartsWith(arg.secret[1], <<"b", "l", "z", "-">>) =>
             /\ IsValid(res.out)
             /\ res.out.type = BATTLE
             /\ res.out.secret = SubstrFrom(arg.secret[1], 4)
        /\ StartsWith(arg.secret[1], <<"b", "l", "i", "z", "-">>) =>
             /\ IsValid(res.out)
             /\ res.out.type = BATTLE
             /\ res.out.secret = SubstrFrom(arg.secret[1], 5)

\* C5: every valid result has one of the six types, and a URI whose scheme
\* token is neither totp nor hotp never gives a valid result.
C5_TypeOfValid ==
    (res.kind = "parsed" /\ IsValid(res.out)) =>
        /\ res.out.type \in OTPType
        /\ arg.shape = "otpauth" /\ ToLowerCase(arg.token) \in {TOTP, HOTP}

\* C6: every valid descriptor has digits in 4..10 (numbers are held times 10).
C6_DigitsRange ==
    (res.kind = "parsed" /\ IsValid(res.out)) =>
        /\ res.out.digits % 10 = 0
        /\ (res.out.digits \div 10) \in MinDigits..MaxDigits

\* C7: every valid descriptor has a period that is a positive integer divisor
\* of 60 (numbers are held times 10).
C7_PeriodDividesSixty ==
    (res.kind = "parsed" /\ IsValid(res.out)) =>
        /\ res.out.period % 10 = 0
        /\ res.out.period > 0
        /\ 60 % (res.out.period \div 10) = 0

\* The secret parameter is present, not empty, and matches neither /^[0-9a-f]+$/i
\* nor /^[2-7a-z]+=*$/i.
HasBadSecret(a) ==
    /\ a.shape = "otpauth"
    /\ a.secret # <<>>
    /\ a.secret[1] # <<>>
    /\ ~IsHexSecret(a.secret[1])
    /\ ~IsBase32Secret(a.secret[1])

\* The structured failure of line 148: error, raw secret, original URI, and no
\* valid=true.
IsSecretFailure(r, a) ==
    /\ r.t = "object"
    /\ "error" \in DOMAIN r
    /\ r.secret = a.secret[1]
    /\ r.originalUrl = a.url
    /\ ~IsValid(r)

----------------------------------------------------------------------------
(* OTPGenerator: the code of an entry at a time *)

\* x || d for a number: 0 is falsy.
OrDefault(x, d) == IF x = 0 THEN d ELSE x

\* algorithm || 'SHA1': the empty string is falsy.
AlgorithmOrDefault(a) == IF a = <<>> THEN SHA1 ELSE a

Threw(e) == [threw |-> TRUE, error |-> e]
Returned(v) == [threw |-> FALSE, value |-> v]

generateTOTPOfTime(otpData, currentTime) ==
    LET period == OrDefault(otpData.period, 300)
        counter == currentTime \div period
        timeRemaining == period - (currentTime % period)
        code == generateOTPCode(otpData.secret, U64FromNat(currentTime),
                                OrDefault(otpData.digits, 6),
                                AlgorithmOrDefault(otpData.algorithm),
                                otpData.type = HEX)
    IN  IF code.threw THEN Threw(code.error)
        ELSE Returned([code |-> code.code, type |-> "TOTP",
                       timeRemaining |-> timeRemaining, period |-> period,
                       counter |-> counter,
                       nextRefresh |-> ((currentTime \div period) + 1) * period * 100,
                       valid |-> timeRemaining > 0])

\* Times and periods are held in tenths of a second (a parsed period can be a
\* half), so currentTime is ten times the seconds of the clock and the
\* timeRemaining and period of a result are tenths; nextRefresh is in
\* milliseconds.  A time counter is a number below 2^31 here; an HOTP counter
\* is held as limbs.
generateTOTP(otpData, currentTime) ==
    LET period == OrDefault(otpData.period, 300)
        counter == currentTime \div period
        timeRemaining == period - (currentTime % period)
        code == generateOTPCode(otpData.secret, U64FromNat(counter),
                                OrDefault(otpData.digits, 6),
                                AlgorithmOrDefault(otpData.algorithm),
                                otpData.type = HEX)
    IN  IF code.threw THEN Threw(code.error)
        ELSE Returned([code |-> code.code, type |-> "TOTP",
                       timeRemaining |-> timeRemaining, period |-> period,
                       counter |-> counter,
                       nextRefresh |-> ((currentTime \div period) + 1) * period * 100,
                       valid |-> timeRemaining > 0])

\* otpData.counter || 0 leaves every number as it is.
generateHOTP(otpData) ==
    LET counter == otpData.counter
        code == generateOTPCode(otpData.secret, counter,
                                OrDefault(otpData.digits, 6),
                                AlgorithmOrDefault(otpData.algorithm),
                                otpData.type = HHEX)
    IN  IF code.threw THEN Threw(code.error)
        ELSE Returned([code |-> code.code, type |-> "HOTP", counter |-> counter,
                       nextCounter |-> U64Inc(counter)])

generateSteamCode(otpData, currentTime) ==
    LET period == 300
        counter == currentTime \div period
        timeRemaining == period - (currentTime % period)
        code == generateSteamOTP(otpData.secret, U64FromNat(counter))
    IN  IF code.threw THEN Threw(code.error)
        ELSE Returned([code |-> code.code, type |-> "Steam",
                       timeRemaining |-> timeRemaining, period |-> period,
                       counter |-> counter,
                       nextRefresh |-> ((currentTime \div period) + 1) * period * 100])

generateBattleCode(otpData, currentTime) ==
    LET period == 300
        counter == currentTime \div period
        timeRemaining == period - (currentTime % period)
        code == generateOTPCode(otpData.secret, U64FromNat(counter), 8, SHA1, FALSE)
    IN  IF code.threw THEN Threw(code.error)
        ELSE Returned([code |-> code.code, type |-> "Battle.net",
                       timeRemaining |-> timeRemaining, period |-> period,
                       counter |-> counter,
                       nextRefresh |-> ((currentTime \div period) + 1) * period * 100])

generateCurrentCode(otpData, currentTime) ==
    IF otpData.secret = <<>> THEN Threw("Invalid OTP data or missing secret")
    ELSE IF otpData.type \in {TOTP, HEX} THEN generateTOTP(otpData, currentTime)
    ELSE IF otpData.type \in {HOTP, HHEX} THEN generateHOTP(otpData)
    ELSE IF otpData.type = STEAM THEN generateSteamCode(otpData, currentTime)
    ELSE IF otpData.type = BATTLE THEN generateBattleCode(otpData, currentTime)
    ELSE Threw("Unsupported OTP type")

\* The loop of getMultipleCodes from index i on: the first throw ends it.
RECURSIVE MultipleCodesFrom(_, _, _, _)
MultipleCodesFrom(otpData, count, currentTime, i) ==
    IF i >= count THEN Returned(<<>>)
    ELSE LET period == OrDefault(otpData.period, 300)
             result == IF otpData.type \in {HOTP, HHEX}
                       THEN generateHOTP([otpData EXCEPT !.counter = U64Add(@, i)])
                       ELSE generateTOTP(otpData, currentTime + i * period)
             rest == MultipleCodesFrom(otpData, count, currentTime, i + 1)
         IN  IF result.threw THEN result
             ELSE IF rest.threw THEN rest
             ELSE Returned(<<[result |-> result.value, sequence |-> i]>> \o rest.value)

getMultipleCodes(otpData, count, currentTime) ==
    MultipleCodesFrom(otpData, count, currentTime, 0)

----------------------------------------------------------------------------
(* POST /:entryId/generate over one stored entry, requests one after another *)

MaxRequests == 3
MaxTicks == 1

Users == {"owner", "other"}
Requests == 1..MaxRequests

\* 2^32 - 6: after two increments the fifth of the five codes of
\* getMultipleCodes is the code of 2^32, which writeUInt32BE refuses.
CounterNearLimit == <<0, 0, 65535, 65530>>

\* Entries the upload route can have stored (OTPEntry schema: digits 4..10,
\* period 15..300 seconds, held in tenths, any number as counter).
Entries ==
    [kind : {"entry"}, userId : {"owner"}, isActive : {TRUE, FALSE},
     type : {HOTP}, secret : {<<"J", "B", "S", "W", "Y", "3", "D", "P">>}, algorithm : {SHA1},
     digits : {6}, period : {300}, counter : {U64FromNat(0), CounterNearLimit},
     useCount : {0}, lastUsed : {0}, lastGeneratedCode : {<<>>}]
    \cup
    [kind : {"entry"}, userId : {"owner"}, isActive : {TRUE},
     type : {HHEX}, secret : {<<"3", "1", "3", "2">>}, algorithm : {SHA256},
     digits : {8}, period : {300}, counter : {U64FromNat(65535)},
     useCount : {0}, lastUsed : {0}, lastGeneratedCode : {<<>>}]
    \cup
    [kind : {"entry"}, userId : {"owner"}, isActive : {TRUE},
     type : {TOTP}, secret : {<<"J", "B", "S", "W", "Y", "3", "D", "P">>, <<"a", "!", "b">>}, algorithm : {SHA1},
     digits : {6}, period : {300}, counter : {U64FromNat(0)},
     useCount : {0}, lastUsed : {0}, lastGeneratedCode : {<<>>}]

IdleRequest == [pc |-> "idle", userId |-> "", entry |-> IdleStore,
                currentCode |-> Pending, multipleCodes |-> <<>>]

InitGenerate ==
    /\ arg \in Entries
    /\ res = Pending
    /\ store = arg
    /\ reqs = [r \in Requests |-> IdleRequest]
    /\ responses = <<>>
    /\ scan = IdleScan
    /\ now = 59

Respond(r, status, body) ==
    responses' = Append(responses, [req |-> r, status |-> status, body |-> body])

NotFound == [success |-> FALSE, code |-> "ENTRY_NOT_FOUND"]
GenerationError == [success |-> FALSE, code |-> "GENERATION_ERROR"]

Finish(r) == reqs' = [reqs EXCEPT ![r].pc = "done"]

\* A request arrives (requests are numbered in the order of arrival); requests
\* are handled one after another.
Receive(r) ==
    /\ reqs[r].pc = "idle"
    /\ \A q \in Requests : q < r => reqs[q].pc = "done"
    /\ \A q \in Requests : q > r => reqs[q].pc = "idle"
    /\ \E u \in Users : reqs' = [reqs EXCEPT ![r].pc = "findOne", ![r].userId = u]
    /\ UNCHANGED <<arg, res, store, responses, scan, now>>

\* await OTPEntry.findOne({ _id, userId, isActive: true }) resolves.
FindOne(r) ==
    /\ reqs[r].pc = "findOne"
    /\ IF store.userId = reqs[r].userId /\ store.isActive
       THEN /\ reqs' = [reqs EXCEPT ![r].pc = "generate", ![r].entry = store]
            /\ UNCHANGED responses
       ELSE /\ Respond(r, 404, NotFound)
            /\ Finish(r)
    /\ UNCHANGED <<arg, res, store, scan, now>>

\* An awaited database call rejects: the catch block answers 500.
DatabaseFails(r) ==
    /\ reqs[r].pc \in {"findOne", "updateUsage", "incrementCounter"}
    /\ Respond(r, 500, GenerationError)
    /\ Finish(r)
    /\ UNCHANGED <<arg, res, store, scan, now>>

otpDataOf(entry) ==
    [type |-> entry.type, secret |-> entry.secret, algorithm |-> entry.algorithm,
     digits |-> entry.digits, period |-> entry.period, counter |-> entry.counter]

\* The document's own changes in updateUsage and incrementCounter, before save().
updateUsage(entry, generatedCode, date) ==
    [entry EXCEPT !.lastUsed = date, !.useCount = @ + 1,
                  !.lastGeneratedCode = IF generatedCode # <<>> THEN generatedCode ELSE @]

incrementCounterTwice(entry) ==
    IF entry.type \in {HOTP, HHEX}
    THEN [entry EXCEPT !.counter = U64Inc(U64Inc(@))] ELSE entry
incrementCounter(entry) ==
    IF entry.type \in {HOTP, HHEX}
    THEN [entry EXCEPT !.counter = U64Inc(@)] ELSE entry

\* The synchronous part of the handler: the codes, then updateUsage up to save().
Generate(r) ==
    /\ reqs[r].pc = "generate"
    /\ LET otpData == otpDataOf(reqs[r].entry)
           currentCode == generateCurrentCode(otpData, now * 10)
           multipleCodes == getMultipleCodes(otpData, 5, now * 10)
       IN  IF currentCode.threw \/ multipleCodes.threw
           THEN /\ Respond(r, 500, GenerationError)
                /\ Finish(r)
           ELSE /\ reqs' = [reqs EXCEPT
                       ![r].pc = "updateUsage",
                       ![r].currentCode = currentCode.value,
                       ![r].multipleCodes = multipleCodes.value,
                       ![r].entry = updateUsage(@, currentCode.value.code, now)]
                /\ UNCHANGED responses
    /\ UNCHANGED <<arg, res, store, scan, now>>

Success(r) == [success |-> TRUE, currentCode |-> reqs[r].currentCode,
               multipleCodes |-> reqs[r].multipleCodes]

\* save() of updateUsage resolves: the changed paths are written; then either
\* incrementCounter runs up to its save(), or the response is sent.
UpdateUsageSaved(r) ==
    /\ reqs[r].pc = "updateUsage"
    /\ store' = [store EXCEPT !.lastUsed = reqs[r].entry.lastUsed,
                              !.useCount = reqs[r].entry.useCount,
                              !.lastGeneratedCode = reqs[r].entry.lastGeneratedCode]
    /\ IF reqs[r].entry.type \in {HOTP, HHEX}
       THEN /\ reqs' = [reqs EXCEPT ![r].pc = "incrementCounter",
                                    ![r].entry = incrementCounter(@)]
            /\ UNCHANGED responses
       ELSE /\ Respond(r, 200, Success(r))
            /\ Finish(r)
    /\ UNCHANGED <<arg, res, scan, now>>

\* save() of incrementCounter resolves: the counter is written, res.json follows.
IncrementCounterSaved(r) ==
    /\ reqs[r].pc = "incrementCounter"
    /\ store' = [store EXCEPT !.counter = reqs[r].entry.counter]
    /\ Respond(r, 200, Success(r))
    /\ Finish(r)
    /\ UNCHANGED <<arg, res, scan, now>>

\* A second passes.
Tick ==
    /\ now < 59 + MaxTicks
    /\ now' = now + 1
    /\ UNCHANGED <<arg, res, store, reqs, responses, scan>>

NextGenerate ==
    \/ \E r \in Requests : Receive(r)
    \/ \E r \in Requests : FindOne(r)
    \/ \E r \in Requests : DatabaseFails(r)
    \/ \E r \in Requests : Generate(r)
    \/ \E r \in Requests : UpdateUsageSaved(r)
    \/ \E r \in Requests : IncrementCounterSaved(r)
    \/ Tick

SpecGenerate == InitGenerate /\ [][NextGenerate]_vars

----------------------------------------------------------------------------
(* C4 *)

Successes == SelectSeq(responses, LAMBDA x : x.status = 200)

\* C4: on an HOTP-family entry with stored counter c, requests handled one
\* after another, the i-th successful response carries counter c + i - 1 and
\* the code of that counter, and the stored counter is c plus the number of
\* successful responses: every success advances it by exactly one, and a
\* request that fails leaves it as it was.
C4_CounterAdvancesOncePerSuccess ==
    (arg.kind = "entry" /\ arg.type \in {HOTP, HHEX}) =>
        /\ \A i \in 1..Len(Successes) :
              LET c == U64Add(arg.counter, i - 1)
                  current == Successes[i].body.currentCode
              IN  /\ current.counter = c
                  /\ current.code = generateOTPCode(arg.secret, c, arg.digits,
                                                    arg.algorithm, arg.type = HHEX).code
        /\ store.counter = U64Add(arg.counter, Len(Successes))

\* Two requests succeeded and the third found the entry but could not generate:
\* the stored counter is two above the first.
C4_Witness ==
    /\ arg.kind = "entry"
    /\ arg.type = HOTP
    /\ Len(responses) = 3
    /\ responses[1].status = 200
    /\ responses[2].status = 200
    /\ responses[3].status = 500
    /\ reqs[responses[3].req].entry # IdleStore
    /\ reqs[responses[3].req].currentCode = Pending
    /\ store.counter = U64Add(arg.counter, 2)
    /\ responses[2].body.currentCode.counter = U64Inc(arg.counter)

----------------------------------------------------------------------------
(* The image pipelines: QRService.processJimpImage, QRServiceOptimized     *)
(* .fastQRScan and the earlier processQRImageEnhanced.  The barcode decoder *)
(* (jsQR) is the environment: each call answers null, throws, or returns a  *)
(* code with its text.                                                      *)

ValidText == <<"o", "t", "p", "a", "u", "t", "h", ":", "/", "/", "t", "o", "t", "p", "/", "E", "x", "a", "m", "p", "l", "e", ":", "u", "s", "e", "r", "?", "s", "e", "c", "r", "e", "t", "=", "J", "B", "S", "W", "Y", "3", "D", "P">>
BadSecretText == <<"o", "t", "p", "a", "u", "t", "h", ":", "/", "/", "t", "o", "t", "p", "/", "u", "s", "e", "r", "?", "s", "e", "c", "r", "e", "t", "=", "a", "!", "b">>
NoLabelText == <<"o", "t", "p", "a", "u", "t", "h", ":", "/", "/", "t", "o", "t", "p", "/", "?", "s", "e", "c", "r", "e", "t", "=", "J", "B", "S", "W", "Y", "3", "D", "P">>
MigrationText == <<"o", "t", "p", "a", "u", "t", "h", "-", "m", "i", "g", "r", "a", "t", "i", "o", "n", ":", "/", "/", "o", "f", "f", "l", "i", "n", "e", "?", "d", "a", "t", "a", "=", "C", "j", "E", "K">>
OtherText == <<"h", "t", "t", "p", ":", "/", "/", "e", "x", "a", "m", "p", "l", "e", ".", "c", "o", "m", "/", "x">>

QRTexts == {ValidText, BadSecretText, NoLabelText, MigrationText, OtherText, <<>>}

Thrown == [t |-> "throw"]
Code(data) == [t |-> "code", data |-> data]
DecoderAnswers == {Null, Thrown} \cup {Code(d) : d \in QRTexts}

String(s) == [t |-> "string", s |-> s]
\* A value is truthy unless it is null or the empty string.
Truthy(v) == v.t = "string" /\ v.s # <<>>

\* qrCode && qrCode.data
HasData(answer) == answer.t = "code" /\ answer.data # <<>>

isValidOTPUrl(data) ==
    /\ data # <<>>
    /\ \/ StartsWith(data, <<"o", "t", "p", "a", "u", "t", "h", ":", "/", "/">>)
       \/ StartsWith(data, <<"o", "t", "p", "a", "u", "t", "h", "-", "m", "i", "g", "r", "a", "t", "i", "o", "n", ":", "/", "/">>)

\* The decoder is called without inversion and, failing that, with both; a
\* throw of either call is caught and gives null.
extractQRFromJimp(first, second) ==
    IF first.t = "throw" THEN [value |-> Null, calls |-> 1]
    ELSE IF HasData(first) THEN [value |-> String(first.data), calls |-> 1]
    ELSE IF second.t = "throw" THEN [value |-> Null, calls |-> 2]
    ELSE IF HasData(second) THEN [value |-> String(second.data), calls |-> 2]
    ELSE [value |-> Null, calls |-> 2]

JimpAttemptsInvertedFirst(large) ==
    <<"inverted", "original", "grayscale", "high contrast", "grayscale + contrast">>
    \o (IF large THEN <<"resized">> ELSE <<>>)
\* The attempts of processJimpImage, in the order of the array.
JimpAttempts(large) ==
    <<"original", "grayscale", "high contrast", "inverted", "grayscale + contrast">>
    \o (IF large THEN <<"resized">> ELSE <<>>)

\* processJimpImage from the parsed text on (lines 507-525).
JimpParsed(parsedOTP, qrData, successfulMethod) ==
    IF parsedOTP = Null
    THEN [success |-> FALSE, code |-> "INVALID_QR_DATA", qrData |-> qrData,
          detectionMethod |-> successfulMethod]
    ELSE [success |-> TRUE, data |-> parsedOTP, qrData |-> qrData,
          detectionMethod |-> successfulMethod]

\* processJimpImage after its loop (lines 494-525).
JimpResult(qrData, successfulMethod, attemptsCount) ==
    IF ~Truthy(qrData)
    THEN [success |-> FALSE, code |-> "NO_QR_FOUND", attemptsCount |-> attemptsCount]
    ELSE JimpParsed(parseOTPAuth(qrData.s), qrData.s, successfulMethod)

\* processQRResult from the parsed text on (lines 204-224).
QRResultParsed(otpData, qrText, method) ==
    IF otpData = Null
    THEN [success |-> FALSE, code |-> "INVALID_OTP_DATA", rawData |-> qrText]
    ELSE [success |-> TRUE, data |-> otpData, rawData |-> qrText,
          detectionMethod |-> method]

processQRResult(qrResult, method) ==
    QRResultParsed(parseOTPAuth(qrResult.data), qrResult.data, method)

FastAttempts == <<"optimized", "inverted", "high-contrast">>

FastEntry(answers, i) ==
    [description |-> FastAttempts[i], calls |-> 1, answer |-> answers[i].t]

Prepend(entry, rest) == [log |-> <<entry>> \o rest.log, result |-> rest.result]

\* fastQRScan from attempt i on, given the decoder's answers: the log of the
\* attempts made and the result.
RECURSIVE fastQRScan(_, _)
fastQRScan(answers, i) ==
    IF i > Len(FastAttempts)
    THEN [log |-> <<>>, result |-> [success |-> FALSE, code |-> "NO_QR_FOUND"]]
    ELSE IF answers[i].t = "throw"
    THEN [log |-> <<FastEntry(answers, i)>>,
          result |-> [success |-> FALSE, code |-> "SCAN_ERROR"]]
    ELSE IF answers[i].t = "code"
    THEN [log |-> <<FastEntry(answers, i)>>,
          result |-> processQRResult(answers[i], FastAttempts[i])]
    ELSE Prepend(FastEntry(answers, i), fastQRScan(answers, i + 1))

InversionModes == <<"dontInvert", "onlyInvert", "attemptBoth">>
Approaches == <<"original", "enhanced contrast", "grayscale", "high contrast">>

\* One approach of processQRImageEnhanced: the inversion modes in turn; the
\* first code whose text is a credential URI is returned, a throw ends the
\* approach.
RECURSIVE EnhancedModes(_, _)
EnhancedModes(answers, m) ==
    IF m > Len(InversionModes) THEN [value |-> Null, calls |-> m - 1]
    ELSE IF answers[m].t = "throw" THEN [value |-> Null, calls |-> m]
    ELSE IF HasData(answers[m]) /\ isValidOTPUrl(answers[m].data)
    THEN [value |-> String(answers[m].data), calls |-> m]
    ELSE EnhancedModes(answers, m + 1)

----------------------------------------------------------------------------
(* SpecQR: one image through one of the pipelines *)

Pipelines == {"jimp", "fast", "enhanced"}

InitQR ==
    /\ arg = NoArg
    /\ res = Pending
    /\ store = IdleStore
    /\ reqs = IdleReqs
    /\ responses = <<>>
    /\ now = 0
    /\ \E p \in Pipelines, large \in BOOLEAN :
          /\ p # "jimp" => ~large
          /\ scan = [kind |-> "scan", pipeline |-> p, large |-> large, pc |-> "attempts",
                     i |-> 1, log |-> <<>>, result |-> Pending]

JimpEntry(description, result) ==
    [description |-> description, calls |-> result.calls, answer |-> result.value.t]

\* The loop of processJimpImage after one call of extractQRFromJimp: a truthy
\* result breaks the loop, and the end of the loop goes on to the result.
JimpStep(s, attempts, result) ==
    IF Truthy(result.value) \/ s.i = Len(attempts)
    THEN [s EXCEPT !.log = Append(@, JimpEntry(attempts[s.i], result)),
                   !.pc = "done",
                   !.result = JimpResult(result.value, attempts[s.i], Len(attempts))]
    ELSE [s EXCEPT !.log = Append(@, JimpEntry(attempts[s.i], result)),
                   !.i = @ + 1]

\* One round of the loop of processJimpImage.
JimpAttempt ==
    /\ scan.kind = "scan" /\ scan.pipeline = "jimp" /\ scan.pc = "attempts"
    /\ \E first, second \in DecoderAnswers :
          scan' = JimpStep(scan, JimpAttempts(scan.large),
                           extractQRFromJimp(first, second))
    /\ UNCHANGED <<arg, res, routeVars>>

FastDone(s, out) ==
    [s EXCEPT !.log = out.log, !.i = Len(out.log) + 1, !.pc = "done",
              !.result = out.result]

\* fastQRScan, which does not yield between its attempts.
FastQRScan ==
    /\ scan.kind = "scan" /\ scan.pipeline = "fast" /\ scan.pc = "attempts"
    /\ \E answers \in [1..Len(FastAttempts) -> DecoderAnswers] :
          scan' = FastDone(scan, fastQRScan(answers, 1))
    /\ UNCHANGED <<arg, res, routeVars>>

\* One approach of processQRImageEnhanced, which returns the text or null.
EnhancedApproach ==
    /\ scan.kind = "scan" /\ scan.pipeline = "enhanced" /\ scan.pc = "attempts"
    /\ \E answers \in [1..Len(InversionModes) -> DecoderAnswers] :
          LET out == EnhancedModes(answers, 1)
              log == Append(scan.log, [description |-> Approaches[scan.i],
                                       calls |-> out.calls, answer |-> out.value.t])
          IN  IF out.value # Null \/ scan.i = Len(Approaches)
              THEN scan' = [scan EXCEPT !.log = log, !.pc = "done", !.result = out.value]
              ELSE scan' = [scan EXCEPT !.log = log, !.i = @ + 1]
    /\ UNCHANGED <<arg, res, routeVars>>

NextQR == JimpAttempt \/ FastQRScan \/ EnhancedApproach

SpecQR == InitQR /\ [][NextQR]_vars

IsResult == scan.kind = "scan" /\ scan.pc = "done" /\ scan.pipeline \in {"jimp", "fast"}

\* The text the decoder returned on the attempt that ended the search, if any.
RawText == IF "qrData" \in DOMAIN scan.result THEN String(scan.result.qrData)
           ELSE IF "rawData" \in DOMAIN scan.result THEN String(scan.result.rawData)
           ELSE Null

\* C9: a pipeline result with success=true carries a valid descriptor, and a
\* result for a decoded text that did not parse to a valid descriptor is a
\* failure INVALID_QR_DATA / INVALID_OTP_DATA carrying the decoded text.
C9_SuccessOnlyIfValid ==
    (IsResult /\ RawText # Null) =>
        IF IsValid(parseOTPAuth(RawText.s))
        THEN scan.result.success /\ IsValid(scan.result.data)
        ELSE /\ ~scan.result.success
             /\ scan.result.code \in {"INVALID_QR_DATA", "INVALID_OTP_DATA"}

\* C10: processJimpImage takes an attempt as its success, and ends its search
\* before the last attempt, only on a decoded text that begins with
\* otpauth:// or otpauth-migration://.
C10_StopsOnlyOnCredentialUri ==
    (scan.kind = "scan" /\ scan.pipeline = "jimp" /\ scan.pc = "done"
        /\ (Len(scan.log) < Len(JimpAttempts(scan.large))
              \/ "qrData" \in DOMAIN scan.result)) =>
        /\ "qrData" \in DOMAIN scan.result
        /\ isValidOTPUrl(scan.result.qrData)

----------------------------------------------------------------------------
(* C11, C12 *)

LastEntry == scan.log[Len(scan.log)]

\* C11: processJimpImage decodes its transforms one after another in the order
\* original, grayscale, high contrast, inverted, grayscale + contrast and then
\* resized (large images only), and fastQRScan in the order optimized,
\* inverted, high-contrast: every attempt before the last one made found
\* nothing, nothing is decoded after the attempt that found a code, and the
\* reported detectionMethod is that attempt.
C11_TransformOrder ==
    (scan.kind = "scan" /\ scan.pipeline \in {"jimp", "fast"}) =>
        LET order == IF scan.pipeline = "jimp"
                     THEN <<"original", "grayscale", "high contrast", "inverted",
                            "grayscale + contrast">>
                          \o (IF scan.large THEN <<"resized">> ELSE <<>>)
                     ELSE <<"optimized", "inverted", "high-contrast">>
        IN  /\ Len(scan.log) <= Len(order)
            /\ \A k \in 1..Len(scan.log) : scan.log[k].description = order[k]
            /\ \A k \in 1..(Len(scan.log) - 1) : scan.log[k].answer = "null"
            /\ scan.pc = "attempts" =>
                  /\ scan.i = Len(scan.log) + 1
                  /\ \A k \in 1..Len(scan.log) : scan.log[k].answer = "null"
            /\ (scan.pc = "done" /\ LastEntry.answer \in {"string", "code"}
                   /\ scan.result.success) =>
                  scan.result.detectionMethod = LastEntry.description
            /\ (scan.pc = "done" /\ "detectionMethod" \in DOMAIN scan.result) =>
                  /\ LastEntry.answer \in {"string", "code"}
                  /\ scan.result.detectionMethod = LastEntry.description

\* The first three transforms found nothing and the inverted image gave a
\* credential: the search ended there.
C11_Witness ==
    /\ scan.kind = "scan" /\ scan.pipeline = "jimp" /\ scan.pc = "done"
    /\ Len(scan.log) = 4
    /\ scan.result.success
    /\ IsValid(scan.result.data)
    /\ scan.result.detectionMethod = "inverted"

\* C12: when the decoder finds no text, or throws, on every attempt, the
\* result is the failure NO_QR_FOUND and every transform was attempted once.
C12_NoCodeFound ==
    (scan.kind = "scan" /\ scan.pipeline \in {"jimp", "fast"} /\ scan.pc = "done"
        /\ \A k \in 1..Len(scan.log) : scan.log[k].answer \in {"null", "throw"}) =>
        /\ ~scan.result.success
        /\ scan.result.code = "NO_QR_FOUND"
        /\ Len(scan.log) = IF scan.pipeline = "jimp" THEN Len(JimpAttempts(scan.large))
                           ELSE Len(FastAttempts)

----------------------------------------------------------------------------
(* OTPGenerator.verifyCode *)

TimeWindow(i) == IF i = 0 THEN "current" ELSE IF i < 0 THEN "previous" ELSE "next"

\* The answer of the loop of verifyCode for the code of one test time.
VerifyMatch(testCode, providedCode, i, period, rest) ==
    IF testCode.threw THEN testCode
    ELSE IF testCode.value.code = providedCode
    THEN Returned([valid |-> TRUE, timeOffset |-> i * period,
                   providedCode |-> providedCode,
                   expectedCode |-> testCode.value.code,
                   timeWindow |-> TimeWindow(i)])
    ELSE rest

VerifyNoMatch(current, providedCode) ==
    IF current.threw THEN current
    ELSE Returned([valid |-> FALSE, providedCode |-> providedCode,
                   expectedCode |-> current.value.code, timeWindow |-> "none"])

\* The loop of verifyCode from offset i on, then the answer for no match.
RECURSIVE VerifyFrom(_, _, _, _, _)
VerifyFrom(otpData, providedCode, windowSize, currentTime, i) ==
    IF i > windowSize
    THEN VerifyNoMatch(generateTOTP(otpData, currentTime), providedCode)
    ELSE VerifyMatch(generateTOTP(otpData,
                                  currentTime + i * OrDefault(otpData.period, 300)),
                     providedCode, i, OrDefault(otpData.period, 300),
                     VerifyFrom(otpData, providedCode, windowSize, currentTime, i + 1))

VerifyHOTP(current, otpData, providedCode) ==
    IF current.threw THEN current
    ELSE Returned([valid |-> current.value.code = providedCode,
                   counter |-> otpData.counter,
                   providedCode |-> providedCode,
                   expectedCode |-> current.value.code])

verifyCodeForwardOnly(otpData, providedCode, windowSize, currentTime) ==
    IF otpData.type \in {HOTP, HHEX}
    THEN VerifyHOTP(generateHOTP(otpData), otpData, providedCode)
    ELSE VerifyFrom(otpData, providedCode, windowSize, currentTime, 0)

verifyCode(otpData, providedCode, windowSize, currentTime) ==
    IF otpData.type \in {HOTP, HHEX}
    THEN VerifyHOTP(generateHOTP(otpData), otpData, providedCode)
    ELSE VerifyFrom(otpData, providedCode, windowSize, currentTime, -windowSize)

----------------------------------------------------------------------------
(* SpecOTP: the generator's functions applied to bounded descriptors at     *)
(* bounded clock times.  A descriptor is what parseOTPAuth or the store     *)
(* hands to the generator; period 0 stands for an absent period.            *)

MaxCount == 5
MaxWindowSize == 2

\* Periods in tenths of a second: absent, 30 s, 60 s, 15 s and the 2.5 s that
\* the parser lets through.
PeriodInputs == {0, 300, 600, 150, 25}

\* Counters around the 32-bit limit of writeUInt32BE, as limbs.
HotpCounterInputs == {U64FromNat(0), U64FromNat(10), <<0, 0, 65535, 65533>>,
                      <<0, 1, 0, 0>>}

SecretOf(type) == IF type \in {HEX, HHEX} THEN <<"3", "1", "3", "2">> ELSE <<"J", "B", "S", "W", "Y", "3", "D", "P">>

TimeDescriptors ==
    {[type |-> ty, secret |-> SecretOf(ty), algorithm |-> SHA1, digits |-> 6,
      period |-> p, counter |-> U64FromNat(0)] :
        ty \in {TOTP, HEX, STEAM, BATTLE}, p \in PeriodInputs}

CounterDescriptors ==
    {[type |-> ty, secret |-> SecretOf(ty), algorithm |-> SHA1, digits |-> 6,
      period |-> 300, counter |-> c] :
        ty \in {HOTP, HHEX}, c \in HotpCounterInputs}

\* Clock times in seconds, on and off the window borders, late enough for the
\* widest verification window.
TimeInputs == {240, 241, 242, 269, 270, 300}

\* The code a client shows at the time shifted by k periods.
CodeAt(otpData, time, k) ==
    generateTOTP(otpData, time * 10 + k * OrDefault(otpData.period, 300)).value.code

WrongCode == <<"0", "0", "0", "0", "0", "x">>

TotpInputs ==
    [kind : {"totp"}, otpData : TimeDescriptors, t1 : TimeInputs, t2 : TimeInputs]
HotpInputs == [kind : {"hotp"}, otpData : CounterDescriptors]
MultipleInputs ==
    [kind : {"multiple"}, otpData : TimeDescriptors \cup CounterDescriptors,
     count : 1..MaxCount]
VerifyTimeInputs ==
    [kind : {"verify"}, otpData : TimeDescriptors, windowSize : 0..MaxWindowSize,
     shift : -(MaxWindowSize + 1)..(MaxWindowSize + 1), wrong : BOOLEAN]
VerifyCounterInputs ==
    [kind : {"verify"}, otpData : CounterDescriptors, windowSize : {1},
     shift : 0..2, wrong : BOOLEAN]

\* Descriptors of every type for the round trip of a code, with the
\* algorithms crypto knows and one of OTPAlgorithm that it does not.
RoundTripDescriptors ==
    {[type |-> ty, secret |-> SecretOf(ty), algorithm |-> a, digits |-> d,
      period |-> p, counter |-> c] :
        ty \in OTPType, a \in {SHA1, SHA256, SHA384, GOST3411_2012_256},
        d \in {6, 8}, p \in {0, 300, 600},
        c \in {U64FromNat(7), <<0, 1, 0, 0>>}}
RoundTripInputs == [kind : {"roundtrip"}, otpData : RoundTripDescriptors]

InitOTP ==
    /\ arg \in TotpInputs \cup HotpInputs \cup MultipleInputs
                \cup VerifyTimeInputs \cup VerifyCounterInputs \cup RoundTripInputs
    /\ res = Pending
    /\ store = IdleStore
    /\ reqs = IdleReqs
    /\ responses = <<>>
    /\ scan = IdleScan
    /\ now \in (IF arg.kind \in {"multiple", "verify", "roundtrip"} THEN TimeInputs
                ELSE {240})

DoGenerateTOTP ==
    /\ arg.kind = "totp"
    /\ res = Pending
    /\ res' = [kind |-> "totp",
               first |-> generateTOTP(arg.otpData, arg.t1 * 10),
               second |-> generateTOTP(arg.otpData, arg.t2 * 10)]
    /\ UNCHANGED <<arg, routeVars, scanVars>>

DoGenerateHOTP ==
    /\ arg.kind = "hotp"
    /\ res = Pending
    /\ res' = [kind |-> "hotp", out |-> generateHOTP(arg.otpData)]
    /\ UNCHANGED <<arg, routeVars, scanVars>>

\* generateCurrentCode and getMultipleCodes at the same reading of the clock.
DoGetMultipleCodes ==
    /\ arg.kind = "multiple"
    /\ res = Pending
    /\ res' = [kind |-> "multiple",
               current |-> generateCurrentCode(arg.otpData, now * 10),
               codes |-> getMultipleCodes(arg.otpData, arg.count, now * 10)]
    /\ UNCHANGED <<arg, routeVars, scanVars>>

\* The code provided to verifyCode: the code of the time shifted by some
\* periods (of the counter raised by some steps), or a code no time gives.
ProvidedCode ==
    IF arg.wrong THEN WrongCode
    ELSE IF arg.otpData.type \in {HOTP, HHEX}
    THEN generateOTPCode(arg.otpData.secret, U64Add(arg.otpData.counter, arg.shift),
                         6, SHA1, arg.otpData.type = HHEX).code
    ELSE CodeAt(arg.otpData, now, arg.shift)

DoVerifyCode ==
    /\ arg.kind = "verify"
    /\ res = Pending
    /\ res' = [kind |-> "verify", providedCode |-> ProvidedCode,
               out |-> verifyCode(arg.otpData, ProvidedCode, arg.windowSize, now * 10)]
    /\ UNCHANGED <<arg, routeVars, scanVars>>

\* verifyCode(otpData, code) with the default windowSize of 1 for the code
\* that generateCurrentCode returned; a throw of the generator ends the trip.
VerifyCurrent(otpData, current, currentTime) ==
    IF current.threw THEN <<>>
    ELSE <<verifyCode(otpData, current.value.code, 1, currentTime)>>

DoCurrentThenVerify ==
    /\ arg.kind = "roundtrip"
    /\ res = Pending
    /\ res' = [kind |-> "roundtrip",
               current |-> generateCurrentCode(arg.otpData, now * 10),
               verified |-> VerifyCurrent(arg.otpData,
                                          generateCurrentCode(arg.otpData, now * 10),
                                          now * 10)]
    /\ UNCHANGED <<arg, routeVars, scanVars>>

NextOTP ==
    \/ DoGenerateTOTP \/ DoGenerateHOTP \/ DoGetMultipleCodes \/ DoVerifyCode
    \/ DoCurrentThenVerify

SpecOTP == InitOTP /\ [][NextOTP]_vars

----------------------------------------------------------------------------
(* C13 - C19 *)

PeriodOf(otpData) == OrDefault(otpData.period, 300)

\* C13: generateTOTP(d, t) has counter = floor(t / p), timeRemaining =
\* p - (t mod p) with 1 <= timeRemaining <= p seconds, and nextRefresh =
\* (floor(t / p) + 1) * p = t + timeRemaining (times in tenths of a second,
\* nextRefresh in milliseconds).
C13_TotpTiming ==
    res.kind = "totp" =>
        LET period == PeriodOf(arg.otpData)
            time == arg.t1 * 10
        IN  /\ ~res.first.threw
            /\ res.first.value.counter = time \div period
            /\ res.first.value.timeRemaining = period - (time % period)
            /\ res.first.value.timeRemaining >= 10
            /\ res.first.value.timeRemaining <= period
            /\ res.first.value.nextRefresh = ((time \div period) + 1) * period * 100
            /\ res.first.value.nextRefresh = (time + res.first.value.timeRemaining) * 100

\* C14: two times in the same period-aligned window give the same counter and
\* the same code; two times in different windows give different counters.
C14_SameWindowSameCode ==
    res.kind = "totp" =>
        LET period == PeriodOf(arg.otpData)
        IN  /\ ~res.first.threw /\ ~res.second.threw
            /\ IF (arg.t1 * 10) \div period = (arg.t2 * 10) \div period
               THEN /\ res.first.value.counter = res.second.value.counter
                    /\ res.first.value.code = res.second.value.code
               ELSE res.first.value.counter # res.second.value.counter

\* Two different seconds of one 30-second window.
C14_Witness ==
    /\ res.kind = "totp"
    /\ arg.otpData.type = TOTP /\ arg.otpData.period = 300
    /\ arg.t1 = 241 /\ arg.t2 = 269
    /\ res.first.value.counter = 8
    /\ res.first.value.code = res.second.value.code

\* C15: generateHOTP computes the code of otpData.counter itself and returns
\* that counter with nextCounter = counter + 1.
C15_HotpVerbatim ==
    res.kind = "hotp" =>
        /\ ~res.out.threw
        /\ res.out.value.counter = arg.otpData.counter
        /\ res.out.value.nextCounter = U64Inc(arg.otpData.counter)
        /\ res.out.value.code =
              PadStart(NumToString(ModPow10(truncatedHash(
                  createHmac(ToLowerCase(SHA1),
                             (IF arg.otpData.type = HHEX
                              THEN hexToBuffer(arg.otpData.secret)
                              ELSE base32ToBuffer(arg.otpData.secret)).bytes,
                             BigEndian8(arg.otpData.counter)).bytes), 6)), 6)

\* C16: getMultipleCodes(d, n) on an HOTP-family descriptor with counter c
\* returns n results in the order of the counters c, c+1, ..., c+n-1, each
\* with the code of its counter.
C16_HotpSequence ==
    (res.kind = "multiple" /\ arg.otpData.type \in {HOTP, HHEX}) =>
        /\ ~res.codes.threw
        /\ Len(res.codes.value) = arg.count
        /\ \A k \in 1..Len(res.codes.value) :
              LET c == U64Add(arg.otpData.counter, k - 1)
              IN  /\ res.codes.value[k].sequence = k - 1
                  /\ res.codes.value[k].result.counter = c
                  /\ res.codes.value[k].result.code =
                        generateHOTP([arg.otpData EXCEPT !.counter = c]).value.code

\* C17: the result at index 0 of getMultipleCodes has the code, counter and
\* period that generateCurrentCode returns at the same clock time.
C17_IndexZeroIsCurrent ==
    (res.kind = "multiple" /\ ~res.codes.threw /\ ~res.current.threw) =>
        /\ res.codes.value[1].result.code = res.current.value.code
        /\ res.codes.value[1].result.counter = res.current.value.counter
        /\ arg.otpData.type \notin {HOTP, HHEX} =>
              res.codes.value[1].result.period = res.current.value.period

\* The offsets of the window whose code is the provided code.
MatchingOffsets ==
    {i \in (-arg.windowSize)..arg.windowSize :
        CodeAt(arg.otpData, now, i) = res.providedCode}

FirstMatch == CHOOSE i \in MatchingOffsets : \A j \in MatchingOffsets : i <= j

\* C18: on a time-based descriptor verifyCode with window size w at time t
\* answers valid=true exactly when the provided code is the code of some time
\* t + i * period with -w <= i <= w; a match reports the first such i as
\* timeOffset = i * period with timeWindow previous / current / next, and no
\* match reports valid=false with the code expected at t.
C18_VerifyWindow ==
    (res.kind = "verify" /\ arg.otpData.type \notin {HOTP, HHEX}) =>
        /\ ~res.out.threw
        /\ res.out.value.valid <=> MatchingOffsets # {}
        /\ res.out.value.providedCode = res.providedCode
        /\ IF res.out.value.valid
           THEN /\ res.out.value.timeOffset = FirstMatch * PeriodOf(arg.otpData)
                /\ res.out.value.timeWindow = TimeWindow(FirstMatch)
                /\ res.out.value.expectedCode = res.providedCode
           ELSE /\ res.out.value.timeWindow = "none"
                /\ res.out.value.expectedCode = CodeAt(arg.otpData, now, 0)

\* With the default window 1, the code of the previous period is accepted as
\* 'previous'.
C18_Witness ==
    /\ res.kind = "verify"
    /\ arg.otpData.type = TOTP /\ arg.otpData.period = 300
    /\ arg.windowSize = 1 /\ arg.shift = -1 /\ ~arg.wrong
    /\ res.out.value.valid
    /\ res.out.value.timeWindow = "previous"
    /\ res.out.value.timeOffset = -300

\* C19: on an HOTP-family descriptor verifyCode answers valid=true exactly
\* when the provided code is the code of descriptor.counter, and reports that
\* counter; the code of a later counter is not accepted.
C19_VerifyHotp ==
    (res.kind = "verify" /\ arg.otpData.type \in {HOTP, HHEX}) =>
        /\ ~res.out.threw
        /\ res.out.value.counter = arg.otpData.counter
        /\ res.out.value.valid <=>
              (res.providedCode =
                  PadStart(NumToString(ModPow10(truncatedHash(
                      createHmac(ToLowerCase(SHA1),
                                 (IF arg.otpData.type = HHEX
                                  THEN hexToBuffer(arg.otpData.secret)
                                  ELSE base32ToBuffer(arg.otpData.secret)).bytes,
                                 BigEndian8(arg.otpData.counter)).bytes), 6)), 6))

----------------------------------------------------------------------------
(* C20 *)

IsIssuerParam(item) == Split(item, <<"=">>)[1] = <<"i", "s", "s", "u", "e", "r">>
IssuerParams == SelectSeq(arg.extras, IsIssuerParam)

\* The issuer a query gives: the value of its last issuer parameter, percent
\* decoded and with '+' as a space; none when the query has no issuer value.
QueryIssuer ==
    IF IssuerParams = <<>> THEN <<>>
    ELSE LET parameter == Split(IssuerParams[Len(IssuerParams)], <<"=">>)
         IN  IF Len(parameter) < 2 THEN <<>>
             ELSE <<PlusToSpace(IF DecodeURIComponent(parameter[2]) = <<>>
                                THEN parameter[2]
                                ELSE DecodeURIComponent(parameter[2])[1])>>

\* C20: for a decoded label with ':' the issuer is the part before the first
\* ':' and the account everything after it; for a label without ':' the
\* account is the label; the issuer of the label (empty without ':') stands
\* unless the query gives an issuer value, which then is the issuer.
C20_LabelIssuerAccount ==
    (res.kind = "parsed" /\ IsValid(res.out)) =>
        LET label == res.out.label
            colon == IndexOf(label, ":")
        IN  /\ res.out.account = IF colon = -1 THEN label
                                 ELSE SubSeq(label, colon + 2, Len(label))
            /\ res.out.issuer = IF QueryIssuer # <<>> THEN QueryIssuer[1]
                                ELSE IF colon = -1 THEN <<>>
                                ELSE SubSeq(label, 1, colon)

----------------------------------------------------------------------------
(* C21, C22 *)

\* C21: an otpauth:// URI without a secret key, or with an empty secret value,
\* never parses to a valid descriptor, whatever else the query holds: the
\* parser returns null.
C21_MissingSecret ==
    (res.kind = "parsed" /\ arg.shape = "otpauth"
        /\ (arg.secret = <<>> \/ arg.secret[1] = <<>>)) =>
        /\ ~IsValid(res.out)
        /\ res.out = Null

\* 'secret=' next to another parameter, under a label.
C21_Witness ==
    /\ res.kind = "parsed"
    /\ arg.shape = "otpauth"
    /\ arg.label # <<>>
    /\ arg.secret = <<(<<>>)>>
    /\ Len(arg.extras) = 1
    /\ res.out = Null

----------------------------------------------------------------------------
(* POST /api/otp/generate: a credential URI is parsed, the current code and *)
(* the next five are generated, and the descriptor is sent back formatted.  *)

OTPAlgorithm == {SHA1, SHA256, SHA512, GOST3411_2012_256, GOST3411_2012_512}

\* otpData.field of an object that may lack the field (the empty option).
Field(r, f) == IF f \in DOMAIN r THEN <<r[f]>> ELSE <<>>

\* A string field that is present and not ''; a number field that is present
\* and not 0.
HasText(r, f) == f \in DOMAIN r /\ r[f] # <<>>
HasNumber(r, f) == f \in DOMAIN r /\ r[f] # 0

Message(text, value) == [text |-> text, value |-> value]

\* The digits and period of a parsed descriptor are held in tenths.
validateOTPData(otpData) ==
    LET errors ==
            (IF ~HasText(otpData, "secret") THEN <<Message("Secret is required", <<>>)>> ELSE <<>>)
            \o (IF ~HasText(otpData, "type") THEN <<Message("OTP type is required", <<>>)>> ELSE <<>>)
            \o (IF HasText(otpData, "type") /\ otpData.type \notin OTPType
                THEN <<Message("Invalid OTP type", otpData.type)>> ELSE <<>>)
        warnings ==
            (IF HasText(otpData, "algorithm") /\ otpData.algorithm \notin OTPAlgorithm
             THEN <<Message("Unknown algorithm, will default to SHA1", otpData.algorithm)>>
             ELSE <<>>)
            \o (IF HasNumber(otpData, "digits") /\ (otpData.digits < 40 \/ otpData.digits > 100)
                THEN <<Message("Unusual digit count", otpData.digits)>> ELSE <<>>)
            \o (IF Field(otpData, "type") = <<TOTP>> /\ HasNumber(otpData, "period")
                    /\ (otpData.period < 150 \/ otpData.period > 3000)
                THEN <<Message("Unusual period", otpData.period)>> ELSE <<>>)
            \o (IF ~HasText(otpData, "issuer") THEN <<Message("No issuer specified", <<>>)>> ELSE <<>>)
    IN  [valid |-> errors = <<>>, errors |-> errors, warnings |-> warnings]

\* descriptions[type] || `Unknown type: ${type}`
getTypeDescription(type) ==
    IF type # <<>> /\ type[1] \in OTPType THEN Message("description", type)
    ELSE Message("Unknown type", type)

getAlgorithmDescription(algorithm) ==
    IF algorithm # <<>> /\ algorithm[1] \in OTPAlgorithm THEN Message("description", algorithm)
    ELSE Message("Custom algorithm", algorithm)

\* { ...otpData, validation, generatedAt, typeDescription, algorithmDescription }:
\* every field of otpData is copied, the four named fields are set after them.
formatOTPResponse(otpData, date) ==
    [validation |-> validateOTPData(otpData),
     generatedAt |-> date,
     typeDescription |-> getTypeDescription(Field(otpData, "type")),
     algorithmDescription |-> getAlgorithmDescription(Field(otpData, "algorithm"))]
        @@ otpData

\* The descriptor the generator reads out of a parsed object whose digits and
\* counter are whole numbers: digits as a number, the counter as limbs, the
\* period in tenths.
ParsedDescriptor(parsedData) ==
    [type |-> parsedData.type, secret |-> parsedData.secret,
     algorithm |-> parsedData.algorithm, digits |-> parsedData.digits \div 10,
     period |-> parsedData.period, counter |-> U64FromNat(parsedData.counter \div 10)]

\* generateCurrentCode(parsedData) of an object that may be a failure object
\* (no type) or a migration object (no secret).
CurrentCodeOfParsed(parsedData, currentTime) ==
    IF ~HasText(parsedData, "secret") THEN Threw("Invalid OTP data or missing secret")
    ELSE IF "valid" \notin DOMAIN parsedData THEN Threw("Unsupported OTP type")
    ELSE generateCurrentCode(ParsedDescriptor(parsedData), currentTime)

\* getMultipleCodes(parsedData, 5): an object without a type takes the time
\* branch, and generateTOTP decodes its secret as Base32 with the defaults.
MultipleCodesOfParsed(parsedData, currentTime) ==
    IF "valid" \notin DOMAIN parsedData
    THEN getMultipleCodes([type |-> <<>>, secret |-> parsedData.secret, algorithm |-> <<>>,
                           digits |-> 0, period |-> 0, counter |-> U64FromNat(0)],
                          5, currentTime)
    ELSE getMultipleCodes(ParsedDescriptor(parsedData), 5, currentTime)

ValidationError == [status |-> 400, success |-> FALSE, code |-> "VALIDATION_ERROR"]
InvalidOtpUrl == [status |-> 400, success |-> FALSE, code |-> "INVALID_OTP_URL"]

\* The try block of the handler: the first throw leaves what was assigned
\* before it and sets codeError.
GenerateBody(parsedData, date, current, multiple) ==
    [status |-> 200, success |-> TRUE,
     data |-> formatOTPResponse(parsedData, date),
     currentCode |-> IF current.threw THEN <<>> ELSE <<current.value>>,
     multipleCodes |-> IF current.threw \/ multiple.threw THEN <<>> ELSE <<multiple.value>>,
     codeError |-> IF current.threw THEN <<current.error>>
                   ELSE IF multiple.threw THEN <<multiple.error>> ELSE <<>>]

GenerateFromUrl(otpUrl, parsedData, date) ==
    IF otpUrl = <<>> THEN ValidationError
    ELSE IF parsedData = Null THEN InvalidOtpUrl
    ELSE GenerateBody(parsedData, date,
                      CurrentCodeOfParsed(parsedData, date * 10),
                      MultipleCodesOfParsed(parsedData, date * 10))

UrlTokens == {TOTP, HOTP, <<"T", "O", "T", "P">>}
UrlLabel == <<"E", "x", "a", "m", "p", "l", "e", ":", "a", "l", "i", "c", "e">>

UrlSecrets == {<<"J", "B", "S", "W", "Y", "3", "D", "P">>, <<"j", "b", "s", "w", "y", "3", "d", "p">>, <<"3", "1", "3", "2">>, <<"3", "1", "3">>, <<"1", "2", "3", "4", "5", "6", "7", "8">>,
               <<"a", "b", "c", "d", "e", "f">>, <<"A", "B", "C", "D", "E", "F">>, <<"2", "3", "4", "5", "6", "7">>, <<"M", "F", "R", "G", "G", "=", "=", "=">>, <<"a", "!", "b">>}

UrlParams == {<<"a", "l", "g", "o", "r", "i", "t", "h", "m", "=", "S", "H", "A", "2", "5", "6">>, <<"a", "l", "g", "o", "r", "i", "t", "h", "m", "=", "s", "h", "a", "5", "1", "2">>, <<"a", "l", "g", "o", "r", "i", "t", "h", "m", "=", "S", "H", "A", "3", "8", "4">>,
              <<"a", "l", "g", "o", "r", "i", "t", "h", "m", "=", "G", "O", "S", "T", "3", "4", "1", "1", "_", "2", "0", "1", "2", "_", "2", "5", "6">>, <<"a", "l", "g", "o", "r", "i", "t", "h", "m", "=", "G", "O", "S", "T", "3", "4", "1", "1", "_", "2", "0", "1", "2", "_", "5", "1", "2">>,
              <<"d", "i", "g", "i", "t", "s", "=", "8">>, <<"c", "o", "u", "n", "t", "e", "r", "=", "5">>, <<"p", "e", "r", "i", "o", "d", "=", "6", "0">>, <<"i", "s", "s", "u", "e", "r", "=", "A", "c", "m", "e">>}

UrlRequests ==
    {[kind |-> "request", shape |-> "otpauth", token |-> t, label |-> UrlLabel,
      secret |-> <<s>>, extras |-> e,
      url |-> BuildUrl([token |-> t, label |-> UrlLabel], <<s>>, e)] :
        t \in UrlTokens, s \in UrlSecrets, e \in {<<>>} \cup {<<p>> : p \in UrlParams}}

OtherRequests == {[a EXCEPT !.kind = "request"] : a \in OtherInputs}

InitUrl ==
    /\ arg \in UrlRequests \cup OtherRequests
    /\ res = Pending
    /\ store = IdleStore
    /\ reqs = IdleReqs
    /\ responses = <<>>
    /\ scan = IdleScan
    /\ now \in {59, 60}

PostOtpGenerate ==
    /\ arg.kind = "request"
    /\ res = Pending
    /\ res' = [kind |-> "response",
               response |-> GenerateFromUrl(arg.url, parseOTPAuth(arg.url), now)]
    /\ UNCHANGED <<arg, routeVars, scanVars>>

NextUrl == PostOtpGenerate

SpecUrl == InitUrl /\ [][NextUrl]_vars

\* The parsed descriptor of a 200 response.
Answered == res.kind = "response" /\ res.response.status = 200
ValidAnswer == Answered /\ IsValid(res.response.data)

\* The code that the descriptor of the response gives when its secret is
\* decoded by the named decoder (hex or Base32) at the time of the request.
CodeByDecoding(data, key, date) ==
    LET counter == IF data.type \in {TOTP, HEX} THEN U64FromNat((date * 10) \div data.period)
                   ELSE U64FromNat(data.counter \div 10)
        hmac == createHmac(ToLowerCase(data.algorithm), key.bytes, CounterBuffer(counter).bytes)
    IN  IF key.threw \/ hmac.threw THEN <<>>
        ELSE <<CodeString(hmac.bytes, data.digits \div 10)>>

\* C22: a hex-only secret that is not Base32 turns totp into hex and hotp
\* into hhex, a secret that matches Base32 keeps totp/hotp, and the code is
\* the one of the hex-decoded secret exactly for the types hex and hhex and
\* the one of the Base32-decoded secret otherwise.
C22_HexRefinement ==
    (ValidAnswer /\ arg.shape = "otpauth") =>
        LET data == res.response.data
            secret == arg.secret[1]
            scheme == ToLowerCase(arg.token)
            expected == CodeByDecoding(data,
                                       IF data.type \in {HEX, HHEX} THEN hexToBuffer(data.secret)
                                       ELSE base32ToBuffer(data.secret),
                                       now)
        IN  /\ (IsHexSecret(secret) /\ ~IsBase32Secret(secret)) =>
                    data.type = (IF scheme = TOTP THEN HEX ELSE HHEX)
            /\ IsBase32Secret(secret) => data.type = scheme
            /\ IF expected = <<>> THEN res.response.currentCode = <<>>
               ELSE /\ res.response.currentCode # <<>>
                    /\ res.response.currentCode[1].code = expected[1]

C22_Witness ==
    /\ ValidAnswer /\ arg.shape = "otpauth"
    /\ arg.token = HOTP /\ arg.secret = <<<<"1", "2", "3", "4", "5", "6", "7", "8">>>>
    /\ res.response.data.type = HHEX
    /\ res.response.currentCode # <<>>
    /\ <<res.response.currentCode[1].code>>
         = CodeByDecoding(res.response.data, hexToBuffer(<<"1", "2", "3", "4", "5", "6", "7", "8">>), now)

----------------------------------------------------------------------------
(* C23, C24, C29: the current code of a descriptor and its verification *)

\* Character i (from 0) of a Steam code for the truncation value v.
SteamChar(v, i) == steamChars[((v \div (26 ^ i)) % 26) + 1]

\* C23: the Steam code at time t is five characters of the Steam alphabet,
\* character i being alphabet[floor(v / 26^i) mod 26] for the 31-bit
\* truncation v of HMAC-SHA1(secret, 8-byte counter floor(t / 30)), whatever
\* the period, digits and algorithm of the descriptor are.
C23_SteamCode ==
    (res.kind = "roundtrip" /\ arg.otpData.type = STEAM) =>
        LET hmac == createHmac(<<"s", "h", "a", "1">>, base32ToBuffer(arg.otpData.secret).bytes,
                               CounterBuffer(U64FromNat(now \div 30)).bytes)
            v == Rfc4226Value(hmac.bytes)
        IN  /\ ~res.current.threw
            /\ Len(res.current.value.code) = 5
            /\ Range(res.current.value.code) \subseteq Range(steamChars)
            /\ res.current.value.code = [i \in 1..5 |-> SteamChar(v, i - 1)]

C23_Witness ==
    /\ res.kind = "roundtrip" /\ arg.otpData.type = STEAM
    /\ arg.otpData.period = 600 /\ arg.otpData.digits = 8
    /\ arg.otpData.algorithm = GOST3411_2012_256
    /\ now = 270
    /\ ~res.current.threw
    /\ Len(res.current.value.code) = 5
    /\ res.current.value.code[1] # res.current.value.code[5]

\* C24: for a descriptor whose algorithm is none of SHA1, SHA256 and SHA512
\* (a GOST name or any other) generating the current code raises an error
\* and returns no code.  Steam and Battle.net descriptors, whose algorithm is
\* fixed to SHA1 whatever the field says, are left out.
C24_UnsupportedAlgorithmRaises ==
    (res.kind = "roundtrip" /\ arg.otpData.type \notin {STEAM, BATTLE}
        /\ arg.otpData.algorithm \notin {SHA1, SHA256, SHA512}) =>
        res.current.threw

----------------------------------------------------------------------------
(* SpecDecode: base32ToBuffer and hexToBuffer applied to bounded texts *)

MaxBytes == 5
MaxTextLen == 3

ByteValues == {0, 90, 255}

\* RFC 4648 section 6: bit k (from 1) of a byte string, zero past its end.
BitOfBytes(b, k) ==
    IF k > 8 * Len(b) THEN 0
    ELSE (b[((k - 1) \div 8) + 1] \div (2 ^ (7 - ((k - 1) % 8)))) % 2

\* The value of the j-th group of five bits.
QuintetOfBytes(b, j) ==
    BitOfBytes(b, 5 * j - 4) * 16 + BitOfBytes(b, 5 * j - 3) * 8
        + BitOfBytes(b, 5 * j - 2) * 4 + BitOfBytes(b, 5 * j - 1) * 2
        + BitOfBytes(b, 5 * j)

\* The RFC 4648 Base32 encoding of b, with '=' up to a multiple of eight
\* characters when padded.
Rfc4648Encode(b, padded) ==
    LET n == (8 * Len(b) + 4) \div 5
        symbols == [j \in 1..n |-> base32Chars[QuintetOfBytes(b, j) + 1]]
    IN  symbols \o (IF padded THEN [j \in 1..((8 - (n % 8)) % 8) |-> "="] ELSE <<>>)

EncodedInputs ==
    {[kind |-> "base32", form |-> "encoded", bytes |-> b,
      text |-> IF lower THEN ToLowerCase(Rfc4648Encode(b, padded))
               ELSE Rfc4648Encode(b, padded)] :
        b \in SeqsUpTo(ByteValues, MaxBytes), lower \in BOOLEAN, padded \in BOOLEAN}

Base32TextChars == {"A", "b", "7", "=", "1", "!", LongS}
Base32TextInputs ==
    {[kind |-> "base32", form |-> "text", bytes |-> <<>>, text |-> t] :
        t \in SeqsUpTo(Base32TextChars, MaxTextLen)}

HexTextChars == {"0", "a", "F", "7", "g"}
HexTextInputs ==
    {[kind |-> "hex", text |-> t] : t \in SeqsUpTo(HexTextChars, MaxTextLen + 1)}

InitDecode ==
    /\ arg \in EncodedInputs \cup Base32TextInputs \cup HexTextInputs
    /\ res = Pending
    /\ store = IdleStore
    /\ reqs = IdleReqs
    /\ responses = <<>>
    /\ scan = IdleScan
    /\ now = 0

DoBase32ToBuffer ==
    /\ arg.kind = "base32"
    /\ res = Pending
    /\ res' = [kind |-> "base32", out |-> base32ToBuffer(arg.text)]
    /\ UNCHANGED <<arg, routeVars, scanVars>>

DoHexToBuffer ==
    /\ arg.kind = "hex"
    /\ res = Pending
    /\ res' = [kind |-> "hex", out |-> hexToBuffer(arg.text)]
    /\ UNCHANGED <<arg, routeVars, scanVars>>

NextDecode == DoBase32ToBuffer \/ DoHexToBuffer

SpecDecode == InitDecode /\ [][NextDecode]_vars

\* A character of the Base32 alphabet in either case.
IsBase32Char(c) == IndexOf(base32Chars, c) >= 0 \/ IndexOf(LOWER, c) >= 0

\* C25: decoding the RFC 4648 encoding of a byte string b, in upper or lower
\* case and with or without '=' padding, returns exactly b; a text with a
\* character that is neither '=' nor of A-Z, 2-7 (in either case) raises an
\* error and returns no bytes.
C25_Base32RoundTrip ==
    res.kind = "base32" =>
        /\ arg.form = "encoded" => (~res.out.threw /\ res.out.bytes = arg.bytes)
        /\ (\E i \in 1..Len(arg.text) : arg.text[i] # "=" /\ ~IsBase32Char(arg.text[i]))
                => res.out.threw

\* The part of C25 over texts of ASCII characters.
C25_AsciiTexts ==
    (res.kind = "base32" /\ \A i \in 1..Len(arg.text) : arg.text[i] # LongS) =>
        /\ arg.form = "encoded" => (~res.out.threw /\ res.out.bytes = arg.bytes)
        /\ (\E i \in 1..Len(arg.text) : arg.text[i] # "=" /\ ~IsBase32Char(arg.text[i]))
                => res.out.threw

\* Every hex digit of the text, left-padded to an even length, as bytes.
BytesOfHexDigits(text) ==
    LET h == IF Len(text) % 2 # 0 THEN <<"0">> \o text ELSE text
    IN  [k \in 1..(Len(h) \div 2) |-> HexVal(h[2 * k - 1]) * 16 + HexVal(h[2 * k])]

\* C26: hexToBuffer returns the bytes of all hex digits of its input, an odd
\* length being left-padded with one '0'; an input with a character that is
\* no hex digit raises an error and returns no shortened byte string.
C26_HexDecoding ==
    res.kind = "hex" =>
        IF \A i \in 1..Len(arg.text) : HexVal(arg.text[i]) >= 0
        THEN ~res.out.threw /\ res.out.bytes = BytesOfHexDigits(arg.text)
        ELSE res.out.threw

----------------------------------------------------------------------------
(* C27 *)

\* The descriptor that formatOTPResponse was given, read back from its result.
DescriptorOf(data) ==
    [f \in DOMAIN data \ {"validation", "generatedAt", "typeDescription",
                          "algorithmDescription"} |-> data[f]]

\* C27: the object formatOTPResponse returns, which POST /api/otp/generate
\* sends as the data of its JSON body, is the same for two descriptors that
\* differ only in their secret.
C27_SecretNotVisible ==
    ValidAnswer =>
        \A s \in {<<"J", "B", "S", "W", "Y", "3", "D", "P">>, <<"M", "F", "R", "G", "G", "=", "=", "=">>} :
            formatOTPResponse([DescriptorOf(res.response.data) EXCEPT !.secret = s], now)
                = res.response.data

----------------------------------------------------------------------------
(* SpecConcurrent: POST /:entryId/generate with requests in flight together. *)
(* Every await of the handler is a point where another request may run.     *)

MaxInFlight == 2

InFlight == {q \in Requests : reqs[q].pc \notin {"idle", "done"}}

\* A request arrives while earlier ones may still be in flight (the server
\* takes up to MaxInFlight at a time).
ReceiveWhileInFlight(r) ==
    /\ reqs[r].pc = "idle"
    /\ \A q \in Requests : q < r => reqs[q].pc # "idle"
    /\ Cardinality(InFlight) < MaxInFlight
    /\ \E u \in Users : reqs' = [reqs EXCEPT ![r].pc = "findOne", ![r].userId = u]
    /\ UNCHANGED <<arg, res, store, responses, scan, now>>

NextConcurrent ==
    \/ \E r \in Requests : ReceiveWhileInFlight(r)
    \/ \E r \in Requests : FindOne(r)
    \/ \E r \in Requests : DatabaseFails(r)
    \/ \E r \in Requests : Generate(r)
    \/ \E r \in Requests : UpdateUsageSaved(r)
    \/ \E r \in Requests : IncrementCounterSaved(r)
    \/ Tick

SpecConcurrent == InitGenerate /\ [][NextConcurrent]_vars

NoneInFlight == \A r \in Requests : reqs[r].pc \in {"idle", "done"}

\* C28: with requests on one HOTP-family entry in flight together, no two
\* successful responses carry the same counter, and once no request is in
\* flight the stored counter is the initial counter plus the number of
\* successful responses.
C28_NoCounterReuse ==
    (arg.kind = "entry" /\ arg.type \in {HOTP, HHEX}) =>
        /\ \A i, j \in 1..Len(Successes) :
              i # j => Successes[i].body.currentCode.counter
                         # Successes[j].body.currentCode.counter
        /\ NoneInFlight => store.counter = U64Add(arg.counter, Len(Successes))

----------------------------------------------------------------------------
(* C29 *)

\* C29: for a descriptor of any type, the code generateCurrentCode returns
\* at a time is accepted (valid = true) by verifyCode at the same time with
\* the default windowSize.
C29_CurrentCodeVerifies ==
    (res.kind = "roundtrip" /\ ~res.current.threw) =>
        /\ res.verified # <<>>
        /\ ~res.verified[1].threw
        /\ res.verified[1].value.valid

\* The part of C29 over the types whose code verifyCode recomputes the same
\* way as generateCurrentCode.
C29_TotpAndHotpFamilies ==
    (res.kind = "roundtrip" /\ ~res.current.threw
        /\ arg.otpData.type \in {TOTP, HEX, HOTP, HHEX}) =>
        /\ res.verified # <<>>
        /\ ~res.verified[1].threw
        /\ res.verified[1].value.valid

----------------------------------------------------------------------------
(* SpecSession: login, the authenticated routes, refresh, logout and the    *)
(* revoking of sessions, one request after another.  Time is in days.  The  *)
(* store holds the Session documents and, as history, the sessions for      *)
(* which a logout (loggedOut) or a revoke (revoked) was answered 200, and   *)
(* the number of requests answered, up to MaxAnswers.                       *)

MaxSessions == 2
MaxDays == 2
MaxAnswers == 4

SessionIds == 1..MaxSessions

NoSession == [exists |-> FALSE, userId |-> "", isActive |-> FALSE,
              expiresAt |-> 0, lastActivity |-> 0]

\* The payload of a token: generateToken(userId, sessionId); sessionId 0 is a
\* token without one.
NoToken == [userId |-> "", sessionId |-> 0]
Tokens == [userId : Users, sessionId : {0} \cup SessionIds]

\* What jwt.verify does with the presented token.
TokenStates == {"valid", "expired", "malformed"}

InitSession ==
    /\ arg = [kind |-> "auth"]
    /\ res = Pending
    /\ store = [kind |-> "auth", sessions |-> [s \in SessionIds |-> NoSession],
                loggedOut |-> {}, revoked |-> {}, answered |-> 0]
    /\ reqs = IdleReqs
    /\ responses = <<>>
    /\ scan = IdleScan
    /\ now = 0

\* sessionSchema.methods.extend and deactivate, with the save().
extend(session, date) == [session EXCEPT !.expiresAt = date + 1, !.lastActivity = date]
deactivate(session) == [session EXCEPT !.isActive = FALSE]

Rejected(status, code, sessions) ==
    [passed |-> FALSE, status |-> status, code |-> code, sessions |-> sessions,
     req |-> [userId |-> ""]]

\* authenticateToken: the answer it sends, or the request object it passes
\* on.  Every user of a token exists and is active; the session found is put
\* on the request as sessionRecord.
authenticateToken(token, tokenState, sessions, date) ==
    IF token = NoToken THEN Rejected(401, "NO_TOKEN", sessions)
    ELSE IF tokenState = "malformed" THEN Rejected(401, "INVALID_TOKEN", sessions)
    ELSE IF tokenState = "expired" THEN Rejected(401, "TOKEN_EXPIRED", sessions)
    ELSE IF token.sessionId # 0
    THEN LET session == sessions[token.sessionId]
         IN  IF ~session.exists \/ ~session.isActive \/ session.expiresAt < date
             THEN Rejected(401, "SESSION_EXPIRED", sessions)
             ELSE [passed |-> TRUE, status |-> 0, code |-> "",
                   sessions |-> [sessions EXCEPT ![token.sessionId].lastActivity = date],
                   req |-> [userId |-> token.userId,
                            sessionRecord |-> token.sessionId]]
    ELSE [passed |-> TRUE, status |-> 0, code |-> "", sessions |-> sessions,
          req |-> [userId |-> token.userId]]

\* The response kept in res: the route, the token presented and what jwt.verify
\* made of it, the answer, and whether the token's session had been ended
\* when the request arrived.
Answer(route, token, tokenState, status, code) ==
    [kind |-> "response", route |-> route, token |-> token, tokenState |-> tokenState,
     status |-> status, code |-> code,
     endedBefore |-> token.sessionId \in (store.loggedOut \cup store.revoked),
     revokedBefore |-> token.sessionId \in store.revoked]

\* One more request is taken.
Taken(st) == [st EXCEPT !.answered = @ + 1]

\* POST /login with valid or invalid credentials: a new Session document of
\* 24 hours, or of 7 days with rememberMe.
Login ==
    \E u \in Users, credentials \in BOOLEAN, rememberMe \in BOOLEAN :
        /\ store.answered < MaxAnswers
        /\ IF ~credentials
           THEN /\ res' = Answer("login", NoToken, "valid", 401, "INVALID_CREDENTIALS")
                /\ store' = Taken(store)
           ELSE \E s \in SessionIds :
                   /\ ~store.sessions[s].exists
                   /\ \A q \in SessionIds : q < s => store.sessions[q].exists
                   /\ store' = Taken([store EXCEPT !.sessions[s] =
                                   [exists |-> TRUE, userId |-> u, isActive |-> TRUE,
                                    expiresAt |-> now + (IF rememberMe THEN 7 ELSE 1),
                                    lastActivity |-> now]])
                   /\ res' = Answer("login", [userId |-> u, sessionId |-> s], "valid",
                                    200, "")
        /\ UNCHANGED <<arg, reqs, responses, scan, now>>

\* The tokens a client can hold: of a user and one of that user's sessions,
\* or none.
Presentable(token) ==
    \/ token = NoToken
    \/ /\ token \in Tokens
       /\ token.sessionId # 0
       /\ store.sessions[token.sessionId].exists
       /\ store.sessions[token.sessionId].userId = token.userId

\* GET /profile, standing for the routes behind authenticateToken that only read.
Profile ==
    \E token \in Tokens \cup {NoToken}, tokenState \in TokenStates :
        /\ store.answered < MaxAnswers
        /\ Presentable(token)
        /\ LET auth == authenticateToken(token, tokenState, store.sessions, now)
           IN  /\ store' = Taken([store EXCEPT !.sessions = auth.sessions])
               /\ res' = IF auth.passed THEN Answer("profile", token, tokenState, 200, "")
                         ELSE Answer("profile", token, tokenState, auth.status, auth.code)
        /\ UNCHANGED <<arg, reqs, responses, scan, now>>

\* POST /logout: the handler deactivates req.session, a field that
\* authenticateToken does not set, and answers 200.
LogoutSessions(req, sessions) ==
    IF Field(req, "session") # <<>>
    THEN [sessions EXCEPT ![req.session] = deactivate(@)]
    ELSE sessions

Logout ==
    \E token \in Tokens \cup {NoToken}, tokenState \in TokenStates :
        /\ store.answered < MaxAnswers
        /\ Presentable(token)
        /\ LET auth == authenticateToken(token, tokenState, store.sessions, now)
           IN  IF auth.passed
               THEN /\ store' = Taken([store EXCEPT
                                    !.sessions = LogoutSessions(auth.req, auth.sessions),
                                    !.loggedOut = @ \cup {token.sessionId}])
                    /\ res' = Answer("logout", token, tokenState, 200, "")
               ELSE /\ store' = Taken([store EXCEPT !.sessions = auth.sessions])
                    /\ res' = Answer("logout", token, tokenState, auth.status, auth.code)
        /\ UNCHANGED <<arg, reqs, responses, scan, now>>

\* DELETE /sessions/:sessionId
RevokeSession ==
    \E token \in Tokens \cup {NoToken}, tokenState \in TokenStates, sessionId \in SessionIds :
        /\ store.answered < MaxAnswers
        /\ Presentable(token)
        /\ LET auth == authenticateToken(token, tokenState, store.sessions, now)
               session == auth.sessions[sessionId]
           IN  IF ~auth.passed
               THEN /\ store' = Taken([store EXCEPT !.sessions = auth.sessions])
                    /\ res' = Answer("revoke", token, tokenState, auth.status, auth.code)
               ELSE IF ~session.exists \/ session.userId # auth.req.userId
               THEN /\ store' = Taken([store EXCEPT !.sessions = auth.sessions])
                    /\ res' = Answer("revoke", token, tokenState, 404, "SESSION_NOT_FOUND")
               ELSE /\ store' = Taken([store EXCEPT
                                    !.sessions = [auth.sessions EXCEPT
                                                     ![sessionId] = deactivate(@)],
                                    !.revoked = @ \cup {sessionId}])
                    /\ res' = Answer("revoke", token, tokenState, 200, "")
        /\ UNCHANGED <<arg, reqs, responses, scan, now>>

\* POST /refresh: no middleware; a token that jwt.verify refuses is answered
\* by the catch block.
Refresh ==
    \E token \in Tokens, tokenState \in TokenStates :
        /\ store.answered < MaxAnswers
        /\ Presentable(token)
        /\ LET session == store.sessions[token.sessionId]
           IN  IF tokenState # "valid"
               THEN /\ res' = Answer("refresh", token, tokenState, 401, "REFRESH_ERROR")
                    /\ store' = Taken(store)
               ELSE IF ~session.exists \/ ~session.isActive \/ session.expiresAt < now
               THEN /\ res' = Answer("refresh", token, tokenState, 401,
                                     "INVALID_REFRESH_TOKEN")
                    /\ store' = Taken(store)
               ELSE /\ store' = Taken([store EXCEPT
                                    !.sessions[token.sessionId] = extend(@, now)])
                    /\ res' = Answer("refresh", token, tokenState, 200, "")
        /\ UNCHANGED <<arg, reqs, responses, scan, now>>

\* A day passes.
NextDay ==
    /\ now < MaxDays
    /\ now' = now + 1
    /\ UNCHANGED <<arg, res, store, reqs, responses, scan>>

NextSession == Login \/ Profile \/ Logout \/ RevokeSession \/ Refresh \/ NextDay

SpecSession == InitSession /\ [][NextSession]_vars

\* C30: a session whose logout or revoke was answered 200 is inactive, and a
\* later request presenting a verifiable token of that session is answered
\* 401 SESSION_EXPIRED by authenticateToken and gets no token from POST /refresh.
C30_EndedSessionRejected ==
    arg.kind = "auth" =>
        /\ \A s \in (store.loggedOut \cup store.revoked) \ {0} :
              ~store.sessions[s].isActive
        /\ (res.kind = "response" /\ res.endedBefore /\ res.tokenState = "valid") =>
              IF res.route = "refresh" THEN res.status = 401
              ELSE res.status = 401 /\ res.code = "SESSION_EXPIRED"

\* The part of C30 for sessions ended by DELETE /sessions/:sessionId.
C30_RevokedSessionRejected ==
    arg.kind = "auth" =>
        /\ \A s \in store.revoked : ~store.sessions[s].isActive
        /\ (res.kind = "response" /\ res.revokedBefore /\ res.tokenState = "valid") =>
              IF res.route = "refresh" THEN res.status = 401
              ELSE res.status = 401 /\ res.code = "SESSION_EXPIRED"

====
